---- MODULE Spec2Model ----
(***************************************************************************)
(* Model of the userspace NAT'd TUN device (wireguard/tun/tun_userspace.go) *)
(* A packet is modelled by its decoded layers (what gopacket.NewPacket      *)
(* hands to the code): the network layer found by packet.Layer, the         *)
(* transport layer found by packet.TransportLayer, and the payload.         *)
(* Beside it: the co-occurrence matrix (inspect/grouping/cooccurrence.go)   *)
(* and the fixed-margin overlap kernel (FixedMarginOverlap), and the        *)
(* device's configuration interface (Device.IpcSet).                        *)
(***************************************************************************)
EXTENDS Integers, Sequences, FiniteSets, TLC

\* ------------------------------------------------------------------ bounds
MaxBatch == 2      \* largest number of buffers in one Write call, write path alone
MaxBatchNat == 1   \* the same, with the receive callback and Read running beside
MaxTTL == 2        \* outbound packets carry TTL / HopLimit 0..MaxTTL
MaxRecv == 2       \* number of UserNat callback invocations explored
U64Mod == 16       \* timestamps are uint64: their arithmetic is modulo 2^64,
                   \* modelled modulo U64Mod
MaxMargin == 3     \* fixedMargin ranges over 0..MaxMargin
MaxPeerObjs == 2   \* Peer objects that NewPeer creates in one run
MaxPeerConfigs == 2  \* peer configs in one IpcSet call
MaxEvents == 3     \* AddEvent calls in one run
MaxCid == 4        \* a loaded matrix is used while nextId is at most MaxCid

\* ------------------------------------------------------------- input sets
NoAddr == "none"   \* a nil *net.IP / an absent layer field
Public4 == "9.9.9.9"
Public6 == "2001:db8::9"
Peers4 == {"10.0.0.2", "10.0.0.3"}
Peers6 == {"fd00::2"}
Remote4 == "1.1.1.1"
Remote6 == "2001:db8::1"
Ports4 == {5000, 5001}
Ports6 == {5000}
L4Kinds == {"TCP", "UDP", "SCTP", "ICMP"}
\* len(bufs[0][offset:]) of the Read calls: 32 has room for a short UDP datagram
\* and not for a TCP one, 1500 for both
BufLens == {32, 1500}

Pkt(net, src, dst, ttl, l4, sport, dport, payload) ==
  [net |-> net, src |-> src, dst |-> dst, ttl |-> ttl, l4 |-> l4,
   sport |-> sport, dport |-> dport, payload |-> payload]

\* a buffer in which gopacket finds neither an IPv4 nor an IPv6 layer
NoIPPacket == Pkt("none", NoAddr, NoAddr, 0, "ICMP", 0, 0, <<>>)

\* ICMP carries no ports; the remote service listens on port 53
L4Ports(l4, ports) == IF l4 = "ICMP" THEN {0} ELSE ports
RemotePorts(l4) == L4Ports(l4, {53})

\* TTL / HopLimit of the outbound packets: every value 0..MaxTTL on the packets
\* that reach the serializer (TCP, UDP), 64 on the others
TTLs(l4) == IF l4 \in {"TCP", "UDP"} THEN 0..MaxTTL ELSE {64}

\* buffers the WireGuard engine hands to Write
OutPackets ==
  {NoIPPacket}
  \cup UNION {{Pkt("IPv4", s, Remote4, t, k, sp, dp, <<170, 187>>) :
                  s \in Peers4, t \in TTLs(k), sp \in L4Ports(k, Ports4), dp \in RemotePorts(k)} :
               k \in L4Kinds}
  \cup UNION {{Pkt("IPv6", s, Remote6, t, k, sp, dp, <<170, 187>>) :
                  s \in Peers6, t \in TTLs(k), sp \in L4Ports(k, Ports6), dp \in RemotePorts(k)} :
               k \in L4Kinds}

\* destination addresses of the inbound packets: the public address, and for
\* TCP and UDP also an address that is not the public one
InDsts(l4, pub) == IF l4 \in {"TCP", "UDP"} THEN {pub, "10.0.0.2"} ELSE {pub}

\* packets UserNat hands to the receive callback
InPackets ==
  {NoIPPacket}
  \cup UNION {{Pkt("IPv4", Remote4, d, 64, k, sp, dp, <<204>>) :
                  d \in InDsts(k, Public4), sp \in RemotePorts(k), dp \in L4Ports(k, Ports4)} :
               k \in L4Kinds}
  \cup UNION {{Pkt("IPv6", Remote6, d, 64, k, sp, dp, <<204>>) :
                  d \in {Public6}, sp \in RemotePorts(k), dp \in L4Ports(k, Ports6)} :
               k \in L4Kinds}

\* ------------------------------------------------------------------ state
VARIABLES
  publicIP,     \* tun.publicIP: [v4, v6], NoAddr for nil
  natTable,     \* tun.natTable: NATKey -> NATValue.IP
  natSet,       \* tun.nat # nil
  natCancelSet, \* tun.natCancel # nil
  registered,   \* the receive callback is registered with UserNat
  closed,       \* closeOnce has run: events and natRcv are closed
  crashed,      \* an unrecovered panic ended the process
  wpc,          \* Write: "idle", "loop", "insert", "locked" (natTableMu held)
  wn,           \* Write: len(bufs)
  wi,           \* Write: index of the next buffer (1-based)
  total,        \* Write: total
  errs,         \* Write: errs, the joined errors in order (<<>> is nil)
  pend,         \* processWritePacket between SendPacket and the table insert
  nok,          \* history: SendPacket calls of the running batch that returned true
  nfail,        \* history: packets of the running batch that produced an error
  seen,         \* history: indices of the buffers of the running batch, as processed
  sentBy,       \* history: per (family, L4 source port), the source of the last
                \* outbound packet for which processWritePacket returned 1
  cbpc,         \* receive callback: "idle", "send" (blocked on natRcv <-)
  cbOut,        \* the datagram the callback is sending on natRcv
  accepted,     \* history: the datagrams the callback accepted, in order
  delivered,    \* history: the datagrams successful Reads returned, in order
  cpc,          \* Close: "idle", "cancel"
  closes,       \* history: how often events and natRcv were closed and natCancel ran
  rpc,          \* Read: "idle", "recv" (blocked on <-natRcv)
  coData,       \* CoOccurrence.data: outer cid -> (inner cid -> overlap)
  idMapping,    \* CoOccurrence.idMapping: session id -> cid
  nextId,       \* CoOccurrence.nextId
  file,         \* the file at dataPath: <<>> if absent, else <<message>>
  saved,        \* history: the matrix SaveData wrote the file from (<<>> if none)
  lastTotal,    \* history: per unordered pair, the last non-zero total CalcAndSet got
  fmArgs,       \* the arguments of the FixedMarginOverlap call under study
  deviceUp,     \* device.isUp()
  peers,        \* device.peers.keyMap: public key -> Peer (an index of peerObjs)
  peerObjs,     \* the Peer objects created so far, removed ones included
  allowedips,   \* device.allowedips: prefix -> Peer
  ipc,          \* IpcSet: pc "idle", "loop", "blocked"; the peer configs left;
                \* the Peers whose endpoint lock the call holds
  ccpc,         \* two Close calls running at once, each: "idle", "check", "call",
                \* "clearNat", "clearCancel", "done"
  events,       \* tun.events: the buffered events, oldest first
  evpc,         \* RoutineTUNEventReader: "run", "stopped"
  added,        \* history: the events AddEvent queued, in order
  handled,      \* history: the events the worker processed, in order
  ev            \* the last operation that completed, with input and result

vars == <<publicIP, natTable, natSet, natCancelSet, registered, closed, crashed,
          wpc, wn, wi, total, errs, pend, nok, nfail, seen, sentBy,
          cbpc, cbOut, accepted, delivered, cpc, closes, rpc,
          coData, idMapping, nextId, file, saved, lastTotal, fmArgs,
          deviceUp, peers, peerObjs, allowedips, ipc,
          ccpc, events, evpc, added, handled, ev>>

writeVars == <<wpc, wn, wi, total, errs, pend, nok, nfail, seen, sentBy>>
recvVars == <<cbpc, cbOut>>
histVars == <<accepted, delivered>>
lifeVars == <<natSet, natCancelSet, registered, closed, cpc, closes>>
coocVars == <<coData, idMapping, nextId, file, saved, lastTotal>>
ipcVars == <<deviceUp, peers, peerObjs, allowedips, ipc>>
evtVars == <<events, evpc, added, handled>>
\* changed only by the concurrent Close calls and by the event channel
sideVars == <<ccpc, evtVars>>
\* what the packet paths leave alone
restVars == <<accepted, delivered, rpc, coocVars, fmArgs, ipcVars, sideVars>>
\* the TUN device
tunBase == <<publicIP, natTable, crashed, writeVars, recvVars, histVars, lifeVars, rpc,
             sideVars>>
\* the TUN device and the engine, left alone by the matrix and the kernel
tunVars == <<tunBase, ipcVars>>

\* (family, L4 source port) of the outbound packets
FlowIds == ({"IPv4"} \X Ports4) \cup ({"IPv6"} \X Ports6)

EmptyTable == [k \in {} |-> NoAddr]

\* the goroutines that call Close at the same time
Closers == {1, 2}

\* CreateUserspaceTUN, apart from the public addresses and the flow table; the
\* event worker is running
InitRest ==
  /\ natSet = TRUE
  /\ natCancelSet = TRUE
  /\ registered = TRUE
  /\ closed = FALSE
  /\ crashed = FALSE
  /\ wpc = "idle" /\ wn = 0 /\ wi = 0 /\ total = 0 /\ errs = <<>>
  /\ pend = <<>> /\ nok = 0 /\ nfail = 0 /\ seen = <<>>
  /\ cbpc = "idle" /\ cbOut = <<>>
  /\ accepted = <<>> /\ delivered = <<>>
  /\ cpc = "idle"
  /\ closes = [events |-> 0, natRcv |-> 0, cancel |-> 0]
  /\ rpc = "idle"
  /\ ccpc = [i \in Closers |-> "idle"]
  /\ events = <<>> /\ evpc = "run" /\ added = <<>> /\ handled = <<>>
  /\ ev = [op |-> "CreateUserspaceTUN"]

\* session ids, in the order of Go's string comparison
Sids == <<"a", "b", "c">>
SidSet == {Sids[i] : i \in DOMAIN Sids}
SidPairs == {{a, b} : a, b \in SidSet}

EmptyMap == [k \in {} |-> 0]

\* NewCoOccurrence(nil): no cells, no ids, nextId 1; no file written, no call made
InitCooc ==
  /\ coData = EmptyMap
  /\ idMapping = EmptyMap
  /\ nextId = 1
  /\ file = <<>>
  /\ saved = <<>>
  /\ lastTotal = [q \in SidPairs |-> 0]

\* NewDevice: no peers, no allowed ips, no IpcSet running
InitPeers ==
  /\ peers = EmptyMap
  /\ peerObjs = <<>>
  /\ allowedips = EmptyMap
  /\ ipc = [pc |-> "idle", left |-> 0, held |-> {}]

\* the engine beside the TUN device: down, nothing configured
InitEngine ==
  /\ deviceUp = FALSE
  /\ InitPeers

Init ==
  /\ publicIP \in [v4 : {NoAddr, Public4}, v6 : {NoAddr, Public6}]
  /\ natTable = EmptyTable
  /\ sentBy = [f \in FlowIds |-> NoAddr]
  /\ InitRest
  /\ InitCooc
  /\ fmArgs = <<>>
  /\ InitEngine

\* ---------------------------------------------------------- outbound path
ErrNoV4 == "cannot send IPv4 packet: no public IPv4 address set"
ErrNoV6 == "cannot send IPv6 packet: no public IPv6 address set"
ErrNoIP == "packet has no IPv4/IPv6 layer"
ErrL4 == "unsupported transport layer type"
ErrSend == "failed to send packet through NAT"
NoErr == "nil"

\* ipv4.TTL -= 1 / ipv6.HopLimit -= 1 on a uint8
DecU8(t) == (t - 1) % 256

\* the configured public address for the packet's network layer
PublicFor(p, pub) == IF p.net = "IPv4" THEN pub.v4 ELSE pub.v6

\* the network layer after the source rewrite and the decrement
RewriteSrc(p, pub) == [p EXCEPT !.src = PublicFor(p, pub), !.ttl = DecU8(p.ttl)]

\* mutant: ICMP taken for a transport layer
TransportLayerICMP(p) == p.l4

\* packet.TransportLayer(): ICMP is no transport layer
TransportLayer(p) == IF p.l4 = "ICMP" THEN "nil" ELSE p.l4

\* mutant: the key taken from the packet's destination
WriteNatKeyDst(nl) == [IP |-> nl.dst, Port |-> nl.dport]

\* natKey of processWritePacket, read from the rewritten network layer
WriteNatKey(nl) == [IP |-> nl.src, Port |-> nl.sport]

\* UserNat.SendPacket: best effort; after the NAT is released sends fail
SendOutcomes(up) == IF up THEN {TRUE, FALSE} ELSE {FALSE}

\* tun.nat.SendPacket with tun.nat = nil (after Close): the method runs on a
\* nil receiver; it panics with a nil dereference when it reads a field of the
\* NAT, and can only return false if it never does
NilReceiverPanics(up) == IF up THEN {FALSE} ELSE {TRUE, FALSE}

\* processWritePacket reaches SendPacket for this packet
ReachesSend(p, pub) ==
  p.net # "none" /\ PublicFor(p, pub) # NoAddr /\ p.l4 \in {"TCP", "UDP"}

WResult(count, err, out, ok, ins) ==
  [count |-> count, err |-> err, out |-> out, ok |-> ok, ins |-> ins]

\* mutant: an unsupported transport layer discarded as success
processWritePacketLenient(p, pub, ok) ==
  IF p.net = "none" THEN WResult(0, ErrNoIP, <<>>, FALSE, <<>>)
  ELSE IF p.net = "IPv4" /\ pub.v4 = NoAddr THEN WResult(0, ErrNoV4, <<>>, FALSE, <<>>)
  ELSE IF p.net = "IPv6" /\ pub.v6 = NoAddr THEN WResult(0, ErrNoV6, <<>>, FALSE, <<>>)
  ELSE IF TransportLayer(p) \notin {"TCP", "UDP"} THEN WResult(0, NoErr, <<>>, FALSE, <<>>)
  ELSE LET nl == RewriteSrc(p, pub) IN
       IF ~ok THEN WResult(0, ErrSend, <<nl>>, FALSE, <<>>)
       ELSE WResult(1, NoErr, <<nl>>, TRUE, <<[key |-> WriteNatKey(nl), val |-> p.src]>>)

\* mutant: the nil check of the public address left out
processWritePacketNoNilCheck(p, pub, ok) ==
  IF p.net = "none" THEN WResult(0, ErrNoIP, <<>>, FALSE, <<>>)
  ELSE IF TransportLayer(p) = "nil" THEN WResult(0, NoErr, <<>>, FALSE, <<>>)
  ELSE IF TransportLayer(p) \notin {"TCP", "UDP"} THEN WResult(0, ErrL4, <<>>, FALSE, <<>>)
  ELSE LET nl == RewriteSrc(p, pub) IN
       IF ~ok THEN WResult(0, ErrSend, <<nl>>, FALSE, <<>>)
       ELSE WResult(1, NoErr, <<nl>>, TRUE, <<[key |-> WriteNatKey(nl), val |-> p.src]>>)

\* processWritePacket up to and including SendPacket; ok is SendPacket's answer.
\* out: the packet handed to SendPacket (<<>> if none); ins: the pending insert.
processWritePacket(p, pub, ok) ==
  IF p.net = "none" THEN WResult(0, ErrNoIP, <<>>, FALSE, <<>>)
  ELSE IF p.net = "IPv4" /\ pub.v4 = NoAddr THEN WResult(0, ErrNoV4, <<>>, FALSE, <<>>)
  ELSE IF p.net = "IPv6" /\ pub.v6 = NoAddr THEN WResult(0, ErrNoV6, <<>>, FALSE, <<>>)
  ELSE IF TransportLayer(p) = "nil" THEN WResult(0, NoErr, <<>>, FALSE, <<>>)
  ELSE IF TransportLayer(p) \notin {"TCP", "UDP"} THEN WResult(0, ErrL4, <<>>, FALSE, <<>>)
  ELSE LET nl == RewriteSrc(p, pub) IN
       IF ~ok THEN WResult(0, ErrSend, <<nl>>, FALSE, <<>>)
       ELSE WResult(1, NoErr, <<nl>>, TRUE, <<[key |-> WriteNatKey(nl), val |-> p.src]>>)

\* mutant: an entry that exists is kept
NatInsertKeepFirst(t, key, val) ==
  [k \in DOMAIN t \cup {key} |-> IF k \in DOMAIN t THEN t[k] ELSE val]

\* tun.natTable[natKey] = localSrcIP
NatInsert(t, key, val) ==
  [k \in DOMAIN t \cup {key} |-> IF k = key THEN val ELSE t[k]]

\* the addressing of a packet: what identifies its flow
Flow(p) == [net |-> p.net, l4 |-> p.l4, src |-> p.src, sport |-> p.sport,
            dst |-> p.dst, dport |-> p.dport]

\* the record of a processWritePacket call that returned 0: its packet, its
\* result, and the packet it handed to SendPacket (<<>> if it did not send)
WEvent(p, r, t) ==
  [op |-> "processWritePacket", flow |-> Flow(p), count |-> r.count, err |-> r.err,
   before |-> t, pkt |-> p, out |-> r.out]

\* mutant: the new error replaces the errors so far
JoinErrLast(es, err) == IF err = NoErr THEN es ELSE <<err>>

\* errors.Join(errs, err) for a non-nil err
JoinErr(es, err) == IF err = NoErr THEN es ELSE Append(es, err)

\* Write: lock writeOpMu, reset toWrite, start the loop over bufs
WriteBegin(maxLen) ==
  /\ ~crashed /\ wpc = "idle"
  /\ \E n \in 1..maxLen :
       /\ wn' = n
       /\ ev' = [op |-> "WriteBegin", n |-> n]
  /\ wpc' = "loop" /\ wi' = 1 /\ total' = 0 /\ errs' = <<>> /\ nok' = 0 /\ nfail' = 0
  /\ seen' = <<>>
  /\ UNCHANGED <<publicIP, natTable, pend, sentBy, crashed>>
  /\ UNCHANGED recvVars /\ UNCHANGED lifeVars

\* mutant: the table entry written before SendPacket's answer is looked at
WriteSendInsertsFirst ==
  /\ ~crashed /\ wpc = "loop" /\ wi <= wn
  /\ \E p \in OutPackets :
     \E ok \in (IF ReachesSend(p, publicIP) THEN SendOutcomes(natSet) ELSE {FALSE}) :
       LET r == processWritePacket(p, publicIP, ok)
           nl == RewriteSrc(p, publicIP) IN
       IF r.ins # <<>>
       THEN /\ wpc' = "insert"
            /\ pend' = <<[flow |-> Flow(p), key |-> r.ins[1].key, val |-> r.ins[1].val]>>
            /\ ev' = [op |-> "SendPacket", pkt |-> p, out |-> r.out, ok |-> TRUE]
            /\ nok' = nok + 1
            /\ UNCHANGED <<wi, total, errs, nfail, seen, crashed, natTable>>
       ELSE /\ wpc' = "loop"
            /\ wi' = wi + 1
            /\ total' = total + r.count
            /\ errs' = JoinErr(errs, r.err)
            /\ nfail' = IF r.err # NoErr THEN nfail + 1 ELSE nfail
            /\ seen' = Append(seen, wi)
            /\ ev' = WEvent(p, r, natTable)
            /\ natTable' = IF ReachesSend(p, publicIP)
                           THEN NatInsert(natTable, WriteNatKey(nl), p.src)
                           ELSE natTable
            /\ UNCHANGED <<pend, nok, crashed>>
  /\ UNCHANGED <<publicIP, wn, sentBy>>
  /\ UNCHANGED recvVars /\ UNCHANGED lifeVars

\* one loop iteration up to SendPacket's return (or the early return)
WriteSend ==
  /\ ~crashed /\ wpc = "loop" /\ wi <= wn
  /\ \E p \in OutPackets :
     \E ok \in (IF ReachesSend(p, publicIP) THEN SendOutcomes(natSet) ELSE {FALSE}) :
     \E nilPanic \in (IF ReachesSend(p, publicIP) THEN NilReceiverPanics(natSet) ELSE {FALSE}) :
       LET r == processWritePacket(p, publicIP, ok) IN
       IF nilPanic
       THEN /\ crashed' = TRUE
            /\ ev' = [op |-> "panic", in |-> "processWritePacket", pkt |-> p]
            /\ UNCHANGED <<wpc, wi, total, errs, pend, nok, nfail, seen>>
       ELSE IF r.ins # <<>>
       THEN /\ wpc' = "insert"
            /\ pend' = <<[flow |-> Flow(p), key |-> r.ins[1].key, val |-> r.ins[1].val]>>
            /\ ev' = [op |-> "SendPacket", pkt |-> p, out |-> r.out, ok |-> TRUE]
            /\ nok' = nok + 1
            /\ UNCHANGED <<wi, total, errs, nfail, seen, crashed>>
       ELSE /\ wpc' = "loop"
            /\ wi' = wi + 1
            /\ total' = total + r.count
            /\ errs' = JoinErr(errs, r.err)
            /\ nfail' = IF r.err # NoErr THEN nfail + 1 ELSE nfail
            /\ seen' = Append(seen, wi)
            /\ ev' = WEvent(p, r, natTable)
            /\ UNCHANGED <<pend, nok, crashed>>
  /\ UNCHANGED <<publicIP, natTable, wn, sentBy>>
  /\ UNCHANGED recvVars /\ UNCHANGED lifeVars

\* tun.natTableMu.Lock(): only writers take the mutex, and writeOpMu lets one
\* writer run, so the Lock never waits
WriteLock ==
  /\ ~crashed /\ wpc = "insert"
  /\ wpc' = "locked"
  /\ ev' = [op |-> "natTableMu.Lock"]
  /\ UNCHANGED <<publicIP, natTable, wn, wi, total, errs, pend, nok, nfail, seen, sentBy,
                 crashed>>
  /\ UNCHANGED recvVars /\ UNCHANGED lifeVars

\* the table insert after a successful send (under natTableMu), and the
\* return of (1, nil)
WriteInsert ==
  /\ ~crashed /\ wpc \in {"insert", "locked"}
  /\ LET q == pend[1] IN
       /\ natTable' = NatInsert(natTable, q.key, q.val)
       /\ total' = total + 1
       /\ errs' = JoinErr(errs, NoErr)
       /\ seen' = Append(seen, wi)
       /\ sentBy' = [sentBy EXCEPT ![<<q.flow.net, q.flow.sport>>] = q.flow.src]
       /\ ev' = [op |-> "processWritePacket", flow |-> q.flow, count |-> 1,
                 err |-> NoErr, before |-> natTable]
  /\ wpc' = "loop" /\ wi' = wi + 1 /\ pend' = <<>>
  /\ UNCHANGED <<publicIP, wn, nok, nfail, crashed>>
  /\ UNCHANGED recvVars /\ UNCHANGED lifeVars

\* return total, errs (the locals of the call end with it)
WriteReturn ==
  /\ ~crashed /\ wpc = "loop" /\ wi > wn
  /\ wpc' = "idle"
  /\ ev' = [op |-> "Write", n |-> wn, total |-> total, errs |-> errs,
            nok |-> nok, nfail |-> nfail, seen |-> seen]
  /\ wn' = 0 /\ wi' = 0 /\ total' = 0 /\ errs' = <<>> /\ nok' = 0 /\ nfail' = 0
  /\ seen' = <<>>
  /\ UNCHANGED <<publicIP, natTable, pend, sentBy, crashed>>
  /\ UNCHANGED recvVars /\ UNCHANGED lifeVars

\* ----------------------------------------------------------- inbound path
\* mutant: the key taken from the L4 source port
ReceiveNatKeySrcPort(p) == [IP |-> p.dst, Port |-> p.sport]

\* natKey of processNatReceivedPacket
ReceiveNatKey(p) == [IP |-> p.dst, Port |-> p.dport]

\* mutant: found is not looked at
NatLookupNoCheck(t, key) ==
  IF key \in DOMAIN t THEN [IP |-> t[key], found |-> TRUE]
  ELSE [IP |-> NoAddr, found |-> TRUE]

\* localDstIP, found := tun.natTable[natKey] (a missing key reads the zero value)
NatLookup(t, key) ==
  IF key \in DOMAIN t THEN [IP |-> t[key], found |-> TRUE]
  ELSE [IP |-> NoAddr, found |-> FALSE]

\* processNatReceivedPacket up to the send on natRcv: the serialized datagram,
\* or <<>> when the packet is dropped
processNatReceivedPacket(p, t) ==
  IF p.net = "none" THEN <<>>
  ELSE IF TransportLayer(p) = "nil" THEN <<>>
  ELSE IF TransportLayer(p) \notin {"TCP", "UDP"} THEN <<>>
  ELSE LET localDstIP == NatLookup(t, ReceiveNatKey(p)) IN
       IF ~localDstIP.found THEN <<>>
       ELSE <<[p EXCEPT !.dst = localDstIP.IP]>>

\* UserNat invokes the registered callback from its one worker thread, one
\* packet at a time
UserNatCanDeliver == registered /\ cbpc = "idle"

\* processNatReceivedPacket reaches the table lookup for this packet
ReachesLookup(p) == p.net # "none" /\ TransportLayer(p) \in {"TCP", "UDP"}

\* the lookup reads tun.natTable without taking natTableMu. While a writer is
\* between Lock and Unlock the read and the map assignment are a data race:
\* the read sees the table before or after the assignment, or the runtime
\* ends the process ("concurrent map read and map write")
TablesSeen ==
  IF wpc = "locked"
  THEN {natTable, NatInsert(natTable, pend[1].key, pend[1].val)}
  ELSE {natTable}
MapFaults == IF wpc = "locked" THEN {TRUE, FALSE} ELSE {FALSE}

\* natReceive: the callback runs on one packet; an accepted packet leaves it
\* blocked on the unbuffered natRcv (a send on the closed channel panics)
NatReceive ==
  /\ ~crashed /\ UserNatCanDeliver
  /\ \E p \in InPackets :
     \E t \in (IF ReachesLookup(p) THEN TablesSeen ELSE {natTable}) :
     \E fault \in (IF ReachesLookup(p) THEN MapFaults ELSE {FALSE}) :
       LET out == processNatReceivedPacket(p, t) IN
       IF fault
       THEN /\ crashed' = TRUE
            /\ ev' = [op |-> "fatal", in |-> "processNatReceivedPacket", pkt |-> p]
            /\ UNCHANGED <<cbpc, cbOut>>
       ELSE /\ ev' = [op |-> "natReceive", pkt |-> p, out |-> out, before |-> natTable]
            /\ IF out = <<>>
               THEN UNCHANGED <<cbpc, cbOut, crashed>>
               ELSE /\ cbOut' = out
                    /\ IF closed
                       THEN crashed' = TRUE /\ cbpc' = "idle"
                       ELSE crashed' = FALSE /\ cbpc' = "send"
  /\ UNCHANGED <<publicIP, natTable>>
  /\ UNCHANGED writeVars /\ UNCHANGED lifeVars

\* ---------------------------------------------------------------- read side
ErrClosed == "os.ErrClosed"
ErrTooLarge == "packet too large for buffer"

\* len of the bytes SerializeLayers produces: IP header, L4 header, payload
SerializedLen(p) ==
  (IF p.net = "IPv4" THEN 20 ELSE 40) + (IF p.l4 = "TCP" THEN 20 ELSE 8) + Len(p.payload)

\* the builtin copy(dst, src) returns the number of bytes copied
Copy(dstLen, srcLen) == IF dstLen < srcLen THEN dstLen ELSE srcLen

\* the result of Read once a datagram of srcLen bytes is received
ReadResult(bufLen, srcLen) ==
  LET n == Copy(bufLen, srcLen) IN
  IF n > bufLen
  THEN [count |-> 0, err |-> ErrTooLarge, size |-> 0]
  ELSE [count |-> 1, err |-> NoErr, size |-> n]

\* mutant: the received datagram stays on the channel
ReadNoDequeue ==
  /\ ~crashed /\ cbpc = "send"
  /\ \E bufLen \in BufLens :
       LET d == cbOut[1]
           r == ReadResult(bufLen, SerializedLen(d)) IN
       ev' = [op |-> "Read", bufLen |-> bufLen, dgram |-> d,
              count |-> r.count, err |-> r.err, size |-> r.size]
  /\ UNCHANGED <<publicIP, natTable, crashed, cbpc, cbOut>>
  /\ UNCHANGED writeVars /\ UNCHANGED lifeVars

\* Read: receive from natRcv (blocks until a sender or the close)
Read ==
  /\ ~crashed
  /\ \/ /\ cbpc = "send"
        /\ \E bufLen \in BufLens :
             LET d == cbOut[1]
                 r == ReadResult(bufLen, SerializedLen(d)) IN
             /\ ev' = [op |-> "Read", bufLen |-> bufLen, dgram |-> d,
                       count |-> r.count, err |-> r.err, size |-> r.size]
        /\ cbpc' = "idle" /\ cbOut' = <<>>
     \/ /\ cbpc # "send" /\ closed
        /\ ev' = [op |-> "Read", count |-> 0, err |-> ErrClosed]
        /\ UNCHANGED <<cbpc, cbOut>>
  /\ UNCHANGED <<publicIP, natTable, crashed>>
  /\ UNCHANGED writeVars /\ UNCHANGED lifeVars

\* Read up to the receive: the caller waits on <-natRcv
ReadStart ==
  /\ ~crashed /\ rpc = "idle"
  /\ rpc' = "recv"
  /\ ev' = [op |-> "ReadStart"]
  /\ UNCHANGED <<publicIP, natTable, crashed, histVars, coocVars, fmArgs, ipcVars, sideVars>>
  /\ UNCHANGED writeVars /\ UNCHANGED recvVars /\ UNCHANGED lifeVars

\* the receive completes (a datagram, or the close) and Read returns
ReadFinish ==
  /\ rpc = "recv"
  /\ Read
  /\ rpc' = "idle"
  /\ UNCHANGED <<histVars, coocVars, fmArgs, ipcVars, sideVars>>

\* -------------------------------------------------------------------- Close
\* mutant: the two closes outside closeOnce.Do
CloseEveryTime ==
  /\ ~crashed /\ cpc = "idle"
  /\ cpc' = "cancel"
  /\ closed' = TRUE
  /\ closes' = [closes EXCEPT !.events = @ + 1, !.natRcv = @ + 1]
  /\ crashed' = (~closed /\ cbpc = "send" /\ rpc # "recv")
  /\ ev' = [op |-> "closeOnce", ran |-> TRUE]
  /\ UNCHANGED <<publicIP, natTable, natSet, natCancelSet, registered>>
  /\ UNCHANGED writeVars /\ UNCHANGED recvVars

\* closeOnce.Do: the first call closes events and natRcv, a later call does
\* nothing. A sender blocked on natRcv panics when the channel closes; a sender
\* that met a waiting receiver has handed its datagram over.
CloseOnce ==
  /\ ~crashed /\ cpc = "idle"
  /\ cpc' = "cancel"
  /\ closed' = TRUE
  /\ closes' = IF closed THEN closes
               ELSE [closes EXCEPT !.events = @ + 1, !.natRcv = @ + 1]
  /\ crashed' = (~closed /\ cbpc = "send" /\ rpc # "recv")
  /\ ev' = [op |-> "closeOnce", ran |-> ~closed]
  /\ UNCHANGED <<publicIP, natTable, natSet, natCancelSet, registered>>
  /\ UNCHANGED writeVars /\ UNCHANGED recvVars

\* if tun.nat != nil { natCancel(); nat = nil; natCancel = nil }; return nil
CloseCancel ==
  /\ ~crashed /\ cpc = "cancel"
  /\ cpc' = "idle"
  /\ natSet' = FALSE
  /\ natCancelSet' = (IF natSet THEN FALSE ELSE natCancelSet)
  /\ registered' = (IF natSet THEN FALSE ELSE registered)
  /\ closes' = IF natSet THEN [closes EXCEPT !.cancel = @ + 1] ELSE closes
  /\ ev' = [op |-> "Close", ret |-> NoErr, cancelled |-> natSet]
  /\ UNCHANGED <<publicIP, natTable, closed, crashed>>
  /\ UNCHANGED writeVars /\ UNCHANGED recvVars

\* ------------------------------------------- Close called by two goroutines
\* what the steps of the concurrent Close calls leave alone
closeFrame == <<publicIP, natTable, writeVars, recvVars, histVars, cpc, rpc, coocVars,
                fmArgs, ipcVars, evtVars>>

\* closeOnce.Do: the first caller closes events and natRcv; nobody gets past
\* Do before that has happened (sync.Once makes the other callers wait)
CloseDo(i) ==
  /\ ~crashed /\ ccpc[i] = "idle"
  /\ ccpc' = [ccpc EXCEPT ![i] = "check"]
  /\ closed' = TRUE
  /\ closes' = IF closed THEN closes
               ELSE [closes EXCEPT !.events = @ + 1, !.natRcv = @ + 1]
  /\ crashed' = (~closed /\ cbpc = "send" /\ rpc # "recv")
  /\ ev' = [op |-> "closeOnce", ran |-> ~closed, by |-> i]
  /\ UNCHANGED <<natSet, natCancelSet, registered>>
  /\ UNCHANGED closeFrame

\* if tun.nat != nil { ... }; return nil
CloseCheck(i) ==
  /\ ~crashed /\ ccpc[i] = "check"
  /\ ccpc' = [ccpc EXCEPT ![i] = IF natSet THEN "call" ELSE "done"]
  /\ ev' = IF natSet THEN [op |-> "CloseCheck", by |-> i]
           ELSE [op |-> "Close", ret |-> NoErr, cancelled |-> FALSE, by |-> i]
  /\ UNCHANGED <<natSet, natCancelSet, registered, closed, closes, crashed>>
  /\ UNCHANGED closeFrame

\* tun.natCancel(): the callback is removed and the context cancelled; the
\* call of a nil func value panics
CloseCall(i) ==
  /\ ~crashed /\ ccpc[i] = "call"
  /\ IF natCancelSet
     THEN /\ ccpc' = [ccpc EXCEPT ![i] = "clearNat"]
          /\ registered' = FALSE
          /\ closes' = [closes EXCEPT !.cancel = @ + 1]
          /\ ev' = [op |-> "natCancel", by |-> i]
          /\ UNCHANGED crashed
     ELSE /\ crashed' = TRUE
          /\ ev' = [op |-> "panic", in |-> "Close", by |-> i]
          /\ UNCHANGED <<ccpc, registered, closes>>
  /\ UNCHANGED <<natSet, natCancelSet, closed>>
  /\ UNCHANGED closeFrame

\* tun.nat = nil
CloseClearNat(i) ==
  /\ ~crashed /\ ccpc[i] = "clearNat"
  /\ ccpc' = [ccpc EXCEPT ![i] = "clearCancel"]
  /\ natSet' = FALSE
  /\ ev' = [op |-> "CloseClearNat", by |-> i]
  /\ UNCHANGED <<natCancelSet, registered, closed, closes, crashed>>
  /\ UNCHANGED closeFrame

\* tun.natCancel = nil; return nil
CloseClearCancel(i) ==
  /\ ~crashed /\ ccpc[i] = "clearCancel"
  /\ ccpc' = [ccpc EXCEPT ![i] = "done"]
  /\ natCancelSet' = FALSE
  /\ ev' = [op |-> "Close", ret |-> NoErr, cancelled |-> TRUE, by |-> i]
  /\ UNCHANGED <<natSet, registered, closed, closes, crashed>>
  /\ UNCHANGED closeFrame

\* --------------------------------------------------------- the event channel
\* make(chan Event, 5)
EventsCap == 5

\* an Event is a set of flags
EventFlags == {"MTU_UPDATE", "UP", "DOWN"}
Events == SUBSET EventFlags

\* what the event channel's steps leave alone
eventFrame == <<publicIP, natTable, crashed, writeVars, recvVars, histVars, lifeVars, rpc,
                coocVars, fmArgs, peers, peerObjs, allowedips, ipc, ccpc>>

\* AddEvent: tun.events <- event; the send waits while the buffer is full.
\* Events are added before Close is called.
AddEvent ==
  /\ ~crashed /\ ~closed
  /\ Len(events) < EventsCap /\ Len(added) < MaxEvents
  /\ \E e \in Events :
       /\ events' = Append(events, e)
       /\ added' = Append(added, e)
       /\ ev' = [op |-> "AddEvent", event |-> e]
  /\ UNCHANGED <<deviceUp, evpc, handled>>
  /\ UNCHANGED eventFrame

\* mutant: the DOWN flag is looked at before the UP flag
EventCallsDownFirst(e) ==
  (IF "MTU_UPDATE" \in e THEN <<"mtu">> ELSE <<>>)
  \o (IF "DOWN" \in e THEN <<"Down">> ELSE <<>>)
  \o (IF "UP" \in e THEN <<"Up">> ELSE <<>>)

\* the loop body of RoutineTUNEventReader: the calls it makes for an event,
\* in order (mtu: the log line with the current MTU)
EventCalls(e) ==
  (IF "MTU_UPDATE" \in e THEN <<"mtu">> ELSE <<>>)
  \o (IF "UP" \in e THEN <<"Up">> ELSE <<>>)
  \o (IF "DOWN" \in e THEN <<"Down">> ELSE <<>>)

\* device.Up() brings the engine up, device.Down() brings it down
RECURSIVE ApplyCalls(_, _)
ApplyCalls(up, calls) ==
  IF Len(calls) = 0 THEN up
  ELSE LET c == calls[Len(calls)]
           before == ApplyCalls(up, SubSeq(calls, 1, Len(calls) - 1)) IN
       IF c = "Up" THEN TRUE ELSE IF c = "Down" THEN FALSE ELSE before

\* for event := range Events(): the oldest buffered event is received and
\* processed (a closed channel still hands out what it buffered)
EventWorkerHandle ==
  /\ ~crashed /\ evpc = "run" /\ events # <<>>
  /\ LET e == Head(events) IN
       /\ deviceUp' = ApplyCalls(deviceUp, EventCalls(e))
       /\ handled' = Append(handled, e)
       /\ ev' = [op |-> "event", event |-> e, calls |-> EventCalls(e), wasUp |-> deviceUp]
  /\ events' = Tail(events)
  /\ UNCHANGED <<evpc, added>>
  /\ UNCHANGED eventFrame

\* the range loop ends when the channel is closed and empty
EventWorkerStop ==
  /\ ~crashed /\ evpc = "run" /\ events = <<>> /\ closed
  /\ evpc' = "stopped"
  /\ ev' = [op |-> "eventWorkerStopped"]
  /\ UNCHANGED <<deviceUp, events, added, handled>>
  /\ UNCHANGED eventFrame

\* ------------------------------------------------- the co-occurrence matrix
\* totals the overlap kernel hands to CalcAndSet
Totals == {0, 3, 7}

\* the position of a session id in the order of Go's string comparison
SidIndex(s) == CHOOSE i \in DOMAIN Sids : Sids[i] = s

\* SessionID.Compare
Compare(s, other) ==
  IF SidIndex(s) < SidIndex(other) THEN -1
  ELSE IF SidIndex(s) > SidIndex(other) THEN 1
  ELSE 0

\* m[k] = v on a Go map
MapSet(f, k, v) == [x \in DOMAIN f \cup {k} |-> IF x = k THEN v ELSE f[x]]

\* the matrix as one value
Matrix(d, ids, n) == [data |-> d, idMapping |-> ids, nextId |-> n]
Cooc == Matrix(coData, idMapping, nextId)

\* mutant: the next id is not advanced
getInternalIdNoIncrement(c, sid) ==
  IF sid \in DOMAIN c.idMapping
  THEN [c |-> c, cid |-> c.idMapping[sid]]
  ELSE [c |-> [c EXCEPT !.idMapping = MapSet(c.idMapping, sid, c.nextId)],
        cid |-> c.nextId]

\* getInternalId: the id of sid, interned as nextId if it has none
\* (nextId is a uint64 and stays far below its largest value)
getInternalId(c, sid) ==
  IF sid \in DOMAIN c.idMapping
  THEN [c |-> c, cid |-> c.idMapping[sid]]
  ELSE [c |-> [c EXCEPT !.idMapping = MapSet(c.idMapping, sid, c.nextId),
                        !.nextId = c.nextId + 1],
        cid |-> c.nextId]

\* (*c.data)[outer][inner] = v, the row made first if it is missing
SetCell(d, outer, inner, v) ==
  MapSet(d, outer, MapSet(IF outer \in DOMAIN d THEN d[outer] ELSE EmptyMap, inner, v))

\* (*c.data)[outer][inner]: a missing row or cell reads as 0
Cell(d, outer, inner) ==
  IF outer \in DOMAIN d /\ inner \in DOMAIN d[outer] THEN d[outer][inner] ELSE 0

\* mutant: a zero total is recorded like any other
CalcAndSetStoresZero(c, sid1, sid2, totalOverlap) ==
  IF Compare(sid1, sid2) = 0 THEN c
  ELSE LET r1 == getInternalId(c, sid1)
           r2 == getInternalId(r1.c, sid2) IN
       IF Compare(sid1, sid2) = -1
       THEN [r2.c EXCEPT !.data = SetCell(r2.c.data, r1.cid, r2.cid, totalOverlap)]
       ELSE [r2.c EXCEPT !.data = SetCell(r2.c.data, r2.cid, r1.cid, totalOverlap)]

\* CalcAndSet, given the total ov1.Overlap(ov2) computed
CalcAndSet(c, sid1, sid2, totalOverlap) ==
  IF Compare(sid1, sid2) = 0 THEN c
  ELSE IF totalOverlap = 0 THEN c
  ELSE LET r1 == getInternalId(c, sid1)
           r2 == getInternalId(r1.c, sid2) IN
       IF Compare(sid1, sid2) = -1
       THEN [r2.c EXCEPT !.data = SetCell(r2.c.data, r1.cid, r2.cid, totalOverlap)]
       ELSE IF Compare(sid1, sid2) = 1
       THEN [r2.c EXCEPT !.data = SetCell(r2.c.data, r2.cid, r1.cid, totalOverlap)]
       ELSE r2.c

\* mutant: the cell is read as (first argument, second argument)
GetAsGiven(c, sid1, sid2) ==
  LET r1 == getInternalId(c, sid1)
      r2 == getInternalId(r1.c, sid2) IN
  [c |-> r2.c, ret |-> Cell(r2.c.data, r1.cid, r2.cid)]

\* Get: the matrix after the call (both ids interned) and the value returned
Get(c, sid1, sid2) ==
  LET r1 == getInternalId(c, sid1)
      r2 == getInternalId(r1.c, sid2) IN
  [c |-> r2.c,
   ret |-> IF Compare(sid1, sid2) < 0
           THEN Cell(r2.c.data, r1.cid, r2.cid)
           ELSE Cell(r2.c.data, r2.cid, r1.cid)]

\* SetOuterKey: the row of sid replaced by an empty one
SetOuterKey(c, sid) ==
  LET r == getInternalId(c, sid) IN
  [r.c EXCEPT !.data = MapSet(r.c.data, r.cid, EmptyMap)]

\* the matrix variables take the value c
CoocBecomes(c) ==
  /\ coData' = c.data
  /\ idMapping' = c.idMapping
  /\ nextId' = c.nextId

CalcAndSetCall ==
  /\ \E a \in SidSet, b \in SidSet, t \in Totals :
       /\ CoocBecomes(CalcAndSet(Cooc, a, b, t))
       /\ lastTotal' = IF a # b /\ t # 0 THEN [lastTotal EXCEPT ![{a, b}] = t]
                       ELSE lastTotal
       /\ ev' = [op |-> "CalcAndSet", sid1 |-> a, sid2 |-> b, total |-> t,
                 before |-> Cooc]
  /\ UNCHANGED <<file, saved, fmArgs>>
  /\ UNCHANGED tunVars

GetCall ==
  /\ \E a \in SidSet, b \in SidSet :
       LET r == Get(Cooc, a, b) IN
       /\ CoocBecomes(r.c)
       /\ ev' = [op |-> "Get", sid1 |-> a, sid2 |-> b, ret |-> r.ret, before |-> Cooc]
  /\ UNCHANGED <<file, saved, lastTotal, fmArgs>>
  /\ UNCHANGED tunVars

SetOuterKeyCall ==
  /\ \E a \in SidSet :
       /\ CoocBecomes(SetOuterKey(Cooc, a))
       /\ ev' = [op |-> "SetOuterKey", sid1 |-> a, before |-> Cooc]
  /\ UNCHANGED <<file, saved, lastTotal, fmArgs>>
  /\ UNCHANGED tunVars

\* --------------------------------------------------------------- the codec
\* the orders in which a range over a Go map with key set S can visit it
Orders(S) ==
  {q \in [1..Cardinality(S) -> S] : \A i, j \in 1..Cardinality(S) : q[i] = q[j] => i = j}

\* one visiting order for every row of d
InnerOrders(d) ==
  {f \in [DOMAIN d -> UNION {Orders(DOMAIN d[i]) : i \in DOMAIN d}] :
     \A i \in DOMAIN d : f[i] \in Orders(DOMAIN d[i])}

\* protocol.CoocOuter of row i, its cells appended in the order q
CoocOuter(d, i, q) ==
  [cid |-> i, inner |-> [k \in DOMAIN q |-> [cid |-> q[k], overlap |-> d[i][q[k]]]]]

\* SaveData: the protocol.CooccurrenceData messages it can build from c, one
\* for every order the three map ranges can take
SaveData(c) ==
  {[outer |-> [k \in DOMAIN oq |-> CoocOuter(c.data, oq[k], iq[oq[k]])],
    sids |-> [k \in DOMAIN sq |-> [sid |-> sq[k], cid |-> c.idMapping[sq[k]]]]] :
     oq \in Orders(DOMAIN c.data), iq \in InnerOrders(c.data),
     sq \in Orders(DOMAIN c.idMapping)}

Front(q) == SubSeq(q, 1, Len(q) - 1)

\* innerMap[inner.Cid] = inner.Overlap over outer.CoocInner, in order
RECURSIVE LoadInner(_)
LoadInner(q) ==
  IF Len(q) = 0 THEN EmptyMap
  ELSE MapSet(LoadInner(Front(q)), q[Len(q)].cid, q[Len(q)].overlap)

\* result[outer.Cid] = innerMap over coocData.CoocOuter, in order
RECURSIVE LoadOuter(_)
LoadOuter(q) ==
  IF Len(q) = 0 THEN EmptyMap
  ELSE MapSet(LoadOuter(Front(q)), q[Len(q)].cid, LoadInner(q[Len(q)].inner))

\* mapping[SessionID(sid.Sid)] = sid.Cid over coocData.CoocSid, in order
RECURSIVE LoadSids(_)
LoadSids(q) ==
  IF Len(q) = 0 THEN EmptyMap
  ELSE MapSet(LoadSids(Front(q)), q[Len(q)].sid, q[Len(q)].cid)

ErrRead == "could not read file"
ErrUnmarshal == "could not unmarshal data"

\* a file whose bytes are no protocol.CooccurrenceData message (cut inside a
\* field)
Undecodable == [outer |-> <<>>, sids |-> <<>>, wire |-> "truncated"]

\* proto.Unmarshal succeeds on the content
Decodes(msg) == "wire" \notin DOMAIN msg

\* mutant: the id mapping of the file is not installed
LoadDataKeepsMapping(c, f) ==
  IF f = <<>> THEN [c |-> c, err |-> ErrRead]
  ELSE IF ~Decodes(f[1]) THEN [c |-> c, err |-> ErrUnmarshal]
  ELSE [c |-> Matrix(LoadOuter(f[1].outer), c.idMapping, c.nextId), err |-> NoErr]

\* mutant: the matrix is emptied before the file is read
LoadDataClearsFirst(c, f) ==
  IF f = <<>> THEN [c |-> Matrix(EmptyMap, EmptyMap, c.nextId), err |-> ErrRead]
  ELSE IF ~Decodes(f[1])
  THEN [c |-> Matrix(EmptyMap, EmptyMap, c.nextId), err |-> ErrUnmarshal]
  ELSE [c |-> Matrix(LoadOuter(f[1].outer), LoadSids(f[1].sids), c.nextId),
        err |-> NoErr]

\* LoadData from the file f (<<>>: there is none): data and idMapping are
\* replaced, nextId is left as it is; a file that cannot be read or decoded
\* changes nothing
LoadData(c, f) ==
  IF f = <<>> THEN [c |-> c, err |-> ErrRead]
  ELSE IF ~Decodes(f[1]) THEN [c |-> c, err |-> ErrUnmarshal]
  ELSE [c |-> Matrix(LoadOuter(f[1].outer), LoadSids(f[1].sids), c.nextId),
        err |-> NoErr]

\* files written by something else than SaveData: one whose sid table gives
\* two session ids the same cid, one that SaveData could have written, and
\* one that does not decode
ForeignFiles ==
  {Undecodable,
   [outer |-> <<[cid |-> 1, inner |-> <<[cid |-> 2, overlap |-> 3]>>]>>,
    sids |-> <<[sid |-> "a", cid |-> 1], [sid |-> "b", cid |-> 1]>>],
   [outer |-> <<[cid |-> 2, inner |-> <<[cid |-> 1, overlap |-> 7]>>]>>,
    sids |-> <<[sid |-> "b", cid |-> 1], [sid |-> "a", cid |-> 2]>>]}

NoTotals == [q \in SidPairs |-> 0]

SaveDataCall ==
  /\ \E msg \in SaveData(Cooc) : file' = <<msg>>
  /\ saved' = <<Cooc>>
  /\ ev' = [op |-> "SaveData", err |-> NoErr]
  /\ UNCHANGED <<coData, idMapping, nextId, lastTotal, fmArgs>>
  /\ UNCHANGED tunVars

\* the file at dataPath written by another program
WriteFileCall ==
  /\ \E msg \in ForeignFiles : file' = <<msg>>
  /\ saved' = <<>>
  /\ ev' = [op |-> "WriteFile"]
  /\ UNCHANGED <<coData, idMapping, nextId, lastTotal, fmArgs>>
  /\ UNCHANGED tunVars

\* NewCoOccurrence(nil): the calls that follow are made on a new matrix
NewCoOccurrenceCall ==
  /\ CoocBecomes(Matrix(EmptyMap, EmptyMap, 1))
  /\ lastTotal' = NoTotals
  /\ ev' = [op |-> "NewCoOccurrence"]
  /\ UNCHANGED <<file, saved, fmArgs>>
  /\ UNCHANGED tunVars

LoadDataCall ==
  /\ LET r == LoadData(Cooc, file) IN
       /\ CoocBecomes(r.c)
       /\ ev' = [op |-> "LoadData", err |-> r.err, before |-> Cooc]
       /\ lastTotal' = IF r.err = NoErr THEN NoTotals ELSE lastTotal
  /\ UNCHANGED <<file, saved, fmArgs>>
  /\ UNCHANGED tunVars

\* ------------------------------------------------ the fixed-margin kernel
\* the largest timestamp
MaxU64 == U64Mod - 1
Times == 0..MaxU64

\* lists of timestamps: every list of at most one timestamp, and the lists of
\* two drawn from a few timestamps near both ends of the range
PairTimes == {0, 2, 3, 5, 8, 12, MaxU64}
TimeLists ==
  {<<>>} \cup {<<t>> : t \in Times} \cup {<<t, u>> : t \in PairTimes, u \in PairTimes}

FmInputs == [times1 : TimeLists, times2 : TimeLists, margin : 0..MaxMargin]

\* fmEvent; eType 1 is a start, 2 an end
fmEvent(eTime, eType, eListID) == [eTime |-> eTime, eType |-> eType, eListID |-> eListID]

\* mutant: the end of the interval is the timestamp itself
RECURSIVE addEventsNoEndMargin(_, _, _)
addEventsNoEndMargin(times, listID, fixedMargin) ==
  IF Len(times) = 0 THEN <<>>
  ELSE LET t == times[Len(times)] IN
       addEventsNoEndMargin(Front(times), listID, fixedMargin)
         \o <<fmEvent((t - fixedMargin) % U64Mod, 1, listID), fmEvent(t, 2, listID)>>

\* addEvents: start := t - fixedMargin and end := t + fixedMargin in uint64
\* arithmetic, a start and an end event appended for every timestamp
RECURSIVE addEvents(_, _, _)
addEvents(times, listID, fixedMargin) ==
  IF Len(times) = 0 THEN <<>>
  ELSE LET t == times[Len(times)] IN
       addEvents(Front(times), listID, fixedMargin)
         \o <<fmEvent((t - fixedMargin) % U64Mod, 1, listID),
              fmEvent((t + fixedMargin) % U64Mod, 2, listID)>>

\* the less function handed to sort.Slice
EventLess(x, y) ==
  IF x.eTime = y.eTime
  THEN IF x.eType = y.eType THEN x.eListID < y.eListID ELSE x.eType < y.eType
  ELSE x.eTime < y.eTime

\* e put into the sorted list q, before the first event it is less than
RECURSIVE InsertEvent(_, _)
InsertEvent(e, q) ==
  IF Len(q) = 0 THEN <<e>>
  ELSE IF EventLess(e, q[1]) THEN <<e>> \o q
  ELSE <<q[1]>> \o InsertEvent(e, Tail(q))

\* sort.Slice(events, less): events that compare equal are equal, so the
\* sorted list is the same for every sorting algorithm
RECURSIVE SortEvents(_)
SortEvents(q) ==
  IF Len(q) = 0 THEN <<>> ELSE InsertEvent(q[Len(q)], SortEvents(Front(q)))

\* the sweep before the first event
SweepInit == [totalOverlap |-> 0, activeTimes1 |-> 0, activeTimes2 |-> 0, lastTime |-> 0]

\* mutant: the time between two events counted once per active pair
SweepStepPerPair(st, e) ==
  [totalOverlap |-> IF st.activeTimes1 > 0 /\ st.activeTimes2 > 0
                    THEN (st.totalOverlap
                          + st.activeTimes1 * st.activeTimes2
                            * ((e.eTime - st.lastTime) % U64Mod)) % U64Mod
                    ELSE st.totalOverlap,
   activeTimes1 |-> IF e.eListID # 1 THEN st.activeTimes1
                    ELSE IF e.eType = 1 THEN st.activeTimes1 + 1 ELSE st.activeTimes1 - 1,
   activeTimes2 |-> IF e.eListID = 1 THEN st.activeTimes2
                    ELSE IF e.eType = 1 THEN st.activeTimes2 + 1 ELSE st.activeTimes2 - 1,
   lastTime |-> e.eTime]

\* mutant: the time between two events counted while list 1 is active
SweepStepFirstList(st, e) ==
  [totalOverlap |-> IF st.activeTimes1 > 0
                    THEN (st.totalOverlap + ((e.eTime - st.lastTime) % U64Mod)) % U64Mod
                    ELSE st.totalOverlap,
   activeTimes1 |-> IF e.eListID # 1 THEN st.activeTimes1
                    ELSE IF e.eType = 1 THEN st.activeTimes1 + 1 ELSE st.activeTimes1 - 1,
   activeTimes2 |-> IF e.eListID = 1 THEN st.activeTimes2
                    ELSE IF e.eType = 1 THEN st.activeTimes2 + 1 ELSE st.activeTimes2 - 1,
   lastTime |-> e.eTime]

\* one iteration of the sweep loop (the active counts are ints)
SweepStep(st, e) ==
  [totalOverlap |-> IF st.activeTimes1 > 0 /\ st.activeTimes2 > 0
                    THEN (st.totalOverlap + ((e.eTime - st.lastTime) % U64Mod)) % U64Mod
                    ELSE st.totalOverlap,
   activeTimes1 |-> IF e.eListID # 1 THEN st.activeTimes1
                    ELSE IF e.eType = 1 THEN st.activeTimes1 + 1 ELSE st.activeTimes1 - 1,
   activeTimes2 |-> IF e.eListID = 1 THEN st.activeTimes2
                    ELSE IF e.eType = 1 THEN st.activeTimes2 + 1 ELSE st.activeTimes2 - 1,
   lastTime |-> e.eTime]

RECURSIVE Sweep(_)
Sweep(q) == IF Len(q) = 0 THEN SweepInit ELSE SweepStep(Sweep(Front(q)), q[Len(q)])

\* the events of two lists merged, each list taken to be in order already
RECURSIVE MergeEvents(_, _)
MergeEvents(a, b) ==
  IF Len(a) = 0 THEN b
  ELSE IF Len(b) = 0 THEN a
  ELSE IF EventLess(b[1], a[1]) THEN <<b[1]>> \o MergeEvents(a, Tail(b))
  ELSE <<a[1]>> \o MergeEvents(Tail(a), b)

\* mutant: the events are merged, not sorted
FmEventsMerged(times1, times2, fixedMargin) ==
  MergeEvents(addEvents(times1, 1, fixedMargin), addEvents(times2, 2, fixedMargin))

\* the sorted event list of a call
FmEvents(times1, times2, fixedMargin) ==
  SortEvents(addEvents(times1, 1, fixedMargin) \o addEvents(times2, 2, fixedMargin))

FixedMarginOverlap(times1, times2, fixedMargin) ==
  Sweep(FmEvents(times1, times2, fixedMargin)).totalOverlap

\* the call under study is made
FixedMarginOverlapCall ==
  /\ fmArgs \in FmInputs
  /\ ev' = [op |-> "FixedMarginOverlap", times1 |-> fmArgs.times1,
            times2 |-> fmArgs.times2, margin |-> fmArgs.margin,
            ret |-> FixedMarginOverlap(fmArgs.times1, fmArgs.times2, fmArgs.margin)]
  /\ UNCHANGED <<coocVars, fmArgs>>
  /\ UNCHANGED tunVars

\* ------------------------------------------- the configuration interface
\* the device's own public key, and the public keys of the peer configs
SelfKey == "self"
Prefixes == {"10.0.0.0/24"}

\* PersistentKeepaliveInterval of a peer config: nil, or a duration in ms
KeepaliveMs == {0, 500, 25000}
Keepalives == {[set |-> FALSE, ms |-> 0]} \cup {[set |-> TRUE, ms |-> d] : d \in KeepaliveMs}

\* the optional parts of a peer config: preshared key and endpoint (the
\* pointer is not nil), replace_allowed_ips and the allowed ips; none, an
\* endpoint alone, allowed ips alone, and all together
Extras ==
  {[psk |-> FALSE, endpoint |-> FALSE, replaceAllowed |-> FALSE, allowed |-> <<>>],
   [psk |-> FALSE, endpoint |-> TRUE, replaceAllowed |-> FALSE, allowed |-> <<>>]}
  \cup {[psk |-> FALSE, endpoint |-> FALSE, replaceAllowed |-> FALSE, allowed |-> <<x>>] :
          x \in Prefixes}
  \cup {[psk |-> TRUE, endpoint |-> TRUE, replaceAllowed |-> TRUE, allowed |-> <<x>>] :
          x \in Prefixes}

\* wgtypes.PeerConfig
PeerConfig(key, remove, updateOnly, ka, x) ==
  [key |-> key, remove |-> remove, updateOnly |-> updateOnly, ka |-> ka,
   psk |-> x.psk, endpoint |-> x.endpoint, replaceAllowed |-> x.replaceAllowed,
   allowed |-> x.allowed]

\* the peer configs: every combination for the peer A, for a second peer B
\* its addition with an allowed ip and its removal, and one config that names
\* the device's own key
PeerConfigs ==
  {PeerConfig("A", rm, uo, ka, x) :
     rm \in BOOLEAN, uo \in BOOLEAN, ka \in Keepalives, x \in Extras}
  \cup {PeerConfig("B", rm, FALSE, [set |-> FALSE, ms |-> 0], x) :
          rm \in BOOLEAN, x \in {y \in Extras : ~y.psk /\ y.allowed # <<>>}}
  \cup {PeerConfig(SelfKey, FALSE, FALSE, [set |-> TRUE, ms |-> 25000], x) :
          x \in {y \in Extras : y.psk /\ y.endpoint}}

\* the device as one value; held: the endpoint locks the running IpcSet holds
Device(up, pm, objs, aips, held) ==
  [up |-> up, peers |-> pm, objs |-> objs, allowedips |-> aips, held |-> held]
Dev == Device(deviceUp, peers, peerObjs, allowedips, ipc.held)

\* m without the key k
MapDel(f, k) == [x \in DOMAIN f \ {k} |-> f[x]]

\* device.NewPeer: a stopped Peer without endpoint, preshared key or keepalive
NewPeer(d, key) ==
  LET id == Len(d.objs) + 1 IN
  [d EXCEPT !.objs = Append(d.objs, [key |-> key, ka |-> 0, running |-> FALSE,
                                      endpoint |-> FALSE, psk |-> FALSE]),
            !.peers = MapSet(d.peers, key, id)]

\* allowedips.RemoveByPeer
RemoveByPeer(aips, id) == [x \in {y \in DOMAIN aips : aips[y] # id} |-> aips[x]]

\* device.RemovePeer(key): the Peer is stopped, its allowed ips and its entry
\* in the key map are deleted (nothing happens if the key has no Peer)
RemovePeer(d, key) ==
  IF key \notin DOMAIN d.peers THEN d
  ELSE LET id == d.peers[key] IN
       [d EXCEPT !.objs[id].running = FALSE,
                 !.allowedips = RemoveByPeer(d.allowedips, id),
                 !.peers = MapDel(d.peers, key)]

\* device.RemoveAllPeers
RECURSIVE RemoveAllPeers(_)
RemoveAllPeers(d) ==
  IF DOMAIN d.peers = {} THEN d
  ELSE RemoveAllPeers(RemovePeer(d, CHOOSE k \in DOMAIN d.peers : TRUE))

\* device.allowedips.Insert(prefix, peer) for every prefix of the config
RECURSIVE InsertAll(_, _, _)
InsertAll(aips, q, id) ==
  IF Len(q) = 0 THEN aips ELSE MapSet(InsertAll(aips, Front(q), id), q[Len(q)], id)

\* uint32(secs) of a duration given in ms
StoredSecs(ms) == ms \div 1000

\* what the processing of one peer config did
PeerResult(skipped, blocked, id, created, old, pkaOn, started, keepalives) ==
  [skipped |-> skipped, blocked |-> blocked, peer |-> id, created |-> created,
   old |-> old, pkaOn |-> pkaOn, started |-> started, keepalives |-> keepalives]

\* handlePeerPostConfig: if the device is up the peer is started and, with
\* pkaOn, sent one keepalive
handlePeerPostConfig(d, id, pkaOn) ==
  IF d.up
  THEN [d |-> [d EXCEPT !.objs[id].running = TRUE],
        started |-> TRUE, keepalives |-> IF pkaOn THEN 1 ELSE 0]
  ELSE [d |-> d, started |-> FALSE, keepalives |-> 0]

\* pkaOn = old == 0 && secs != 0, secs the float64 Seconds() of the duration
PkaOn(old, ms) == old = 0 /\ ms # 0

\* one iteration of the loop over deviceConfig.Peers: the device after it and
\* what it did. blocked: the iteration waits for an endpoint lock that the
\* call itself holds (the deferred unlocks run when IpcSet returns).
IpcSetPeer(d, cfg) ==
  IF cfg.key = SelfKey
  THEN [d |-> d, res |-> PeerResult(TRUE, FALSE, 0, FALSE, 0, FALSE, FALSE, 0)]
  ELSE LET created == cfg.key \notin DOMAIN d.peers IN
  IF created /\ cfg.updateOnly
  THEN [d |-> d, res |-> PeerResult(TRUE, FALSE, 0, TRUE, 0, FALSE, FALSE, 0)]
  ELSE LET d1 == IF created THEN NewPeer(d, cfg.key) ELSE d
           id == d1.peers[cfg.key]
           d2 == IF cfg.remove THEN RemovePeer(d1, cfg.key) ELSE d1
           d3 == IF cfg.psk THEN [d2 EXCEPT !.objs[id].psk = TRUE] ELSE d2 IN
  IF cfg.endpoint /\ id \in d3.held
  THEN [d |-> d3, res |-> PeerResult(FALSE, TRUE, id, created, 0, FALSE, FALSE, 0)]
  ELSE LET d4 == IF cfg.endpoint
                 THEN [d3 EXCEPT !.held = @ \cup {id}, !.objs[id].endpoint = TRUE]
                 ELSE d3
           old == d4.objs[id].ka
           d5 == IF cfg.ka.set THEN [d4 EXCEPT !.objs[id].ka = StoredSecs(cfg.ka.ms)]
                 ELSE d4
           pkaOn == cfg.ka.set /\ PkaOn(old, cfg.ka.ms)
           d6 == IF cfg.replaceAllowed
                 THEN [d5 EXCEPT !.allowedips = RemoveByPeer(d5.allowedips, id)]
                 ELSE d5
           d7 == [d6 EXCEPT !.allowedips = InsertAll(d6.allowedips, cfg.allowed, id)]
           post == handlePeerPostConfig(d7, id, pkaOn) IN
       [d |-> post.d,
        res |-> PeerResult(FALSE, FALSE, id, created, old, pkaOn, post.started,
                           post.keepalives)]

\* the device variables take the value d
DevBecomes(d) ==
  /\ peers' = d.peers
  /\ peerObjs' = d.objs
  /\ allowedips' = d.allowedips

\* IpcSet up to the loop: ipcMutex taken, no private key, listen port or
\* fwmark in the config; with ReplacePeers all peers are removed
IpcSetBegin ==
  /\ ipc.pc = "idle"
  /\ \E n \in 1..MaxPeerConfigs, replacePeers \in BOOLEAN :
       /\ DevBecomes(IF replacePeers THEN RemoveAllPeers(Dev) ELSE Dev)
       /\ ipc' = [pc |-> "loop", left |-> n, held |-> {}]
       /\ ev' = [op |-> "IpcSetBegin", n |-> n, replacePeers |-> replacePeers]
  /\ UNCHANGED <<deviceUp, coocVars, fmArgs>>
  /\ UNCHANGED tunBase

\* one peer config is processed
IpcSetPeerStep ==
  /\ ipc.pc = "loop" /\ ipc.left > 0
  /\ \E cfg \in PeerConfigs :
       LET r == IpcSetPeer(Dev, cfg) IN
       /\ (cfg.key \in DOMAIN peers \/ Len(peerObjs) < MaxPeerObjs)
       /\ DevBecomes(r.d)
       /\ ipc' = IF r.res.blocked THEN [ipc EXCEPT !.pc = "blocked"]
                 ELSE [ipc EXCEPT !.left = @ - 1, !.held = r.d.held]
       /\ ev' = [op |-> IF r.res.blocked THEN "IpcSetBlocked" ELSE "IpcSetPeer",
                 cfg |-> cfg, res |-> r.res]
  /\ UNCHANGED <<deviceUp, coocVars, fmArgs>>
  /\ UNCHANGED tunBase

\* return: the deferred endpoint unlocks run, then ipcMutex is released
IpcSetReturn ==
  /\ ipc.pc = "loop" /\ ipc.left = 0
  /\ ipc' = [pc |-> "idle", left |-> 0, held |-> {}]
  /\ ev' = [op |-> "IpcSet", err |-> NoErr, released |-> ipc.held]
  /\ UNCHANGED <<deviceUp, peers, peerObjs, allowedips, coocVars, fmArgs>>
  /\ UNCHANGED tunBase

\* ------------------------------------------------------------ specifications
\* the two packet paths: the engine's write worker, the UserNat worker
\* invoking the callback, and the engine's read worker
Next ==
  \/ (WriteBegin(MaxBatchNat) /\ UNCHANGED restVars)
  \/ (WriteSend /\ UNCHANGED restVars)
  \/ (WriteInsert /\ UNCHANGED restVars)
  \/ (WriteReturn /\ UNCHANGED restVars)
  \/ (NatReceive /\ UNCHANGED restVars)
  \/ (Read /\ UNCHANGED restVars)

Spec == Init /\ [][Next]_vars

\* the write path alone, with longer batches
NextWrite ==
  \/ (WriteBegin(MaxBatch) /\ UNCHANGED restVars)
  \/ (WriteSend /\ UNCHANGED restVars)
  \/ (WriteInsert /\ UNCHANGED restVars)
  \/ (WriteReturn /\ UNCHANGED restVars)

SpecWrite == Init /\ [][NextWrite]_vars

\* the two packet paths with the writer's critical section as a step of its own
NextLocked ==
  \/ (WriteBegin(MaxBatchNat) /\ UNCHANGED restVars)
  \/ (WriteSend /\ UNCHANGED restVars)
  \/ (WriteLock /\ UNCHANGED restVars)
  \/ (wpc = "locked" /\ WriteInsert /\ UNCHANGED restVars)
  \/ (WriteReturn /\ UNCHANGED restVars)
  \/ (NatReceive /\ UNCHANGED restVars)
  \/ (Read /\ UNCHANGED restVars)

SpecLocked == Init /\ [][NextLocked]_vars

\* the key outbound traffic of a flow id records, with both public addresses set
FlowKey(f) == [IP |-> IF f[1] = "IPv4" THEN Public4 ELSE Public6, Port |-> f[2]]

\* the flow tables outbound traffic can have built
FlowTables ==
  UNION {{t \in [{FlowKey(f) : f \in F} -> Peers4 \cup Peers6] :
            \A f \in F : t[FlowKey(f)] \in (IF f[1] = "IPv4" THEN Peers4 ELSE Peers6)} :
         F \in SUBSET FlowIds}

\* the read side alone, with the history of accepted and delivered datagrams:
\* the callback, Read and Close over a table that earlier writes have filled
InitFifo ==
  /\ publicIP = [v4 |-> Public4, v6 |-> Public6]
  /\ natTable \in FlowTables
  /\ sentBy = [f \in FlowIds |->
                 IF FlowKey(f) \in DOMAIN natTable THEN natTable[FlowKey(f)] ELSE NoAddr]
  /\ InitRest
  /\ InitCooc
  /\ fmArgs = <<>>
  /\ InitEngine

NatReceiveH ==
  /\ Len(accepted) < MaxRecv
  /\ NatReceive
  /\ accepted' = IF ev'.out # <<>> THEN Append(accepted, ev'.out[1]) ELSE accepted
  /\ UNCHANGED <<delivered, rpc, coocVars, fmArgs, ipcVars, sideVars>>

ReadH ==
  /\ Read
  /\ delivered' = IF ev'.count = 1 THEN Append(delivered, ev'.dgram) ELSE delivered
  /\ UNCHANGED <<accepted, rpc, coocVars, fmArgs, ipcVars, sideVars>>

NextFifo ==
  \/ NatReceiveH
  \/ ReadH
  \/ (CloseOnce /\ UNCHANGED restVars)
  \/ (CloseCancel /\ UNCHANGED restVars)

SpecFifo == InitFifo /\ [][NextFifo]_vars

\* Write and Close called one after the other: a Write begins when no Close
\* is running, a Close when no Write is
NextWriteClose ==
  \/ (cpc = "idle" /\ WriteBegin(MaxBatchNat) /\ UNCHANGED restVars)
  \/ (WriteSend /\ UNCHANGED restVars)
  \/ (WriteInsert /\ UNCHANGED restVars)
  \/ (WriteReturn /\ UNCHANGED restVars)
  \/ (wpc = "idle" /\ CloseOnce /\ UNCHANGED restVars)
  \/ (CloseCancel /\ UNCHANGED restVars)

SpecWriteClose == Init /\ [][NextWriteClose]_vars

\* Read in its two steps beside the callback and Close. A Read whose receive
\* can complete does complete: its goroutine is runnable and gets scheduled.
NextRead ==
  \/ ReadStart
  \/ ReadFinish
  \/ (NatReceive /\ UNCHANGED restVars)
  \/ (CloseOnce /\ UNCHANGED restVars)
  \/ (CloseCancel /\ UNCHANGED restVars)

SpecRead == InitFifo /\ [][NextRead]_vars /\ WF_vars(ReadFinish)

\* the device as constructed, left idle while the matrix is used
InitIdleTun ==
  /\ publicIP = [v4 |-> Public4, v6 |-> Public6]
  /\ natTable = EmptyTable
  /\ sentBy = [f \in FlowIds |-> NoAddr]
  /\ InitRest

\* a new matrix beside the idle device
InitMatrix ==
  /\ InitIdleTun
  /\ InitCooc
  /\ fmArgs = <<>>
  /\ InitEngine

\* a new matrix under CalcAndSet and Get
NextCooc ==
  \/ CalcAndSetCall
  \/ GetCall

SpecCooc == InitMatrix /\ [][NextCooc]_vars

\* the same with SetOuterKey
NextCoocKeys ==
  \/ CalcAndSetCall
  \/ GetCall
  \/ SetOuterKeyCall

SpecCoocKeys == InitMatrix /\ [][NextCoocKeys]_vars

\* a matrix is built, saved (or a foreign file is put in place), and the file
\* is loaded, into the same matrix or a new one
NextCodec ==
  \/ (file = <<>> /\ CalcAndSetCall)
  \/ (file = <<>> /\ SaveDataCall)
  \/ (file = <<>> /\ WriteFileCall)
  \/ NewCoOccurrenceCall
  \/ LoadDataCall

SpecCodec == InitMatrix /\ [][NextCodec]_vars

\* the matrix has just been loaded from the file
JustLoaded == ev.op = "LoadData" /\ ev.err = NoErr /\ nextId <= MaxCid

\* a matrix is built and saved, and the file is loaded, into the same matrix or
\* a new one; the first call on the loaded matrix is made
NextReload ==
  \/ (file = <<>> /\ CalcAndSetCall)
  \/ (file = <<>> /\ SaveDataCall)
  \/ NewCoOccurrenceCall
  \/ LoadDataCall
  \/ (JustLoaded /\ CalcAndSetCall)
  \/ (JustLoaded /\ GetCall)
  \/ (JustLoaded /\ SetOuterKeyCall)

SpecReload == InitMatrix /\ [][NextReload]_vars

\* the arguments of the call drawn from FmInputs
InitOverlap ==
  /\ InitIdleTun
  /\ InitCooc
  /\ fmArgs \in FmInputs
  /\ InitEngine

\* the kernel applied to every input of FmInputs
NextOverlap ==
  \/ FixedMarginOverlapCall

SpecOverlap == InitOverlap /\ [][NextOverlap]_vars

\* a new device, up or down, configured through IpcSet
InitIpc ==
  /\ InitIdleTun
  /\ InitCooc
  /\ fmArgs = <<>>
  /\ deviceUp \in BOOLEAN
  /\ InitPeers

NextIpc ==
  \/ IpcSetBegin
  \/ IpcSetPeerStep
  \/ IpcSetReturn

SpecIpc == InitIpc /\ [][NextIpc]_vars

\* two goroutines call Close at the same time, beside the callback and Read
NextClosers ==
  \/ \E i \in Closers : CloseDo(i)
  \/ \E i \in Closers : CloseCheck(i)
  \/ \E i \in Closers : CloseCall(i)
  \/ \E i \in Closers : CloseClearNat(i)
  \/ \E i \in Closers : CloseClearCancel(i)
  \/ (NatReceive /\ UNCHANGED restVars)
  \/ (Read /\ UNCHANGED restVars)

SpecClosers == InitFifo /\ [][NextClosers]_vars

\* the event channel with its worker and Close
InitEngineTun ==
  /\ InitIdleTun
  /\ InitCooc
  /\ fmArgs = <<>>
  /\ InitEngine

NextEngine ==
  \/ AddEvent
  \/ EventWorkerHandle
  \/ EventWorkerStop
  \/ (CloseOnce /\ UNCHANGED restVars)
  \/ (CloseCancel /\ UNCHANGED restVars)

SpecEngine == InitEngineTun /\ [][NextEngine]_vars

\* the same beside the callback and Read, earlier writes having recorded one
\* flow. The worker runs whenever it can: its goroutine is runnable and gets
\* scheduled.
InitEvents ==
  /\ publicIP = [v4 |-> Public4, v6 |-> Public6]
  /\ natTable = NatInsert(EmptyTable, FlowKey(<<"IPv4", 5000>>), "10.0.0.2")
  /\ sentBy = [f \in FlowIds |-> IF f = <<"IPv4", 5000>> THEN "10.0.0.2" ELSE NoAddr]
  /\ InitRest
  /\ InitCooc
  /\ fmArgs = <<>>
  /\ InitEngine

NextEvents ==
  \/ AddEvent
  \/ EventWorkerHandle
  \/ EventWorkerStop
  \/ (NatReceive /\ UNCHANGED restVars)
  \/ (Read /\ UNCHANGED restVars)
  \/ (CloseOnce /\ UNCHANGED restVars)
  \/ (CloseCancel /\ UNCHANGED restVars)

SpecEvents ==
  InitEvents /\ [][NextEvents]_vars
  /\ WF_vars(EventWorkerHandle) /\ WF_vars(EventWorkerStop)

\* ------------------------------------------------------------------- claims
IsWrite(e) == e.op = "processWritePacket"
IsReceive(e) == e.op = "natReceive"
TcpUdp == {"TCP", "UDP"}

\* C1: NAT round trip. Once an outbound TCP/UDP packet p has been processed
\* with count 1, an inbound TCP/UDP packet addressed to the public address of
\* p's family whose L4 destination port is p's L4 source port is offered on
\* the read channel with its destination replaced by the source of the last
\* such p, and is otherwise unchanged.
C1_RoundTrip ==
  (/\ IsReceive(ev)
   /\ ev.pkt.net # "none" /\ ev.pkt.l4 \in TcpUdp
   /\ ev.pkt.dst = PublicFor(ev.pkt, publicIP)
   /\ sentBy[<<ev.pkt.net, ev.pkt.dport>>] # NoAddr)
  => /\ ev.out = <<[ev.pkt EXCEPT !.dst = sentBy[<<ev.pkt.net, ev.pkt.dport>>]]>>
     /\ cbpc = "send" /\ cbOut = ev.out

C1_Witness ==
  /\ IsReceive(ev) /\ ev.pkt.l4 = "UDP" /\ ev.pkt.dst = Public4
  /\ ev.out # <<>> /\ ev.out[1].dst = "10.0.0.3"
  /\ cbpc = "send"

\* C2 as stated: after a packet is processed with count 1 the table maps
\* (destination address of p, L4 destination port of p) to p's source.
C2_KeyIsDestination ==
  (IsWrite(ev) /\ ev.count = 1)
  => LET k == [IP |-> ev.flow.dst, Port |-> ev.flow.dport] IN
     k \in DOMAIN natTable /\ natTable[k] = ev.flow.src

\* C2 amended: after a packet is processed with count 1 the table maps
\* (public address of p's family, L4 source port of p) to p's source.
C2_KeyIsPublicSource ==
  (IsWrite(ev) /\ ev.count = 1)
  => LET k == [IP |-> PublicFor(ev.flow, publicIP), Port |-> ev.flow.sport] IN
     /\ ev.flow.l4 \in TcpUdp
     /\ k.IP # NoAddr
     /\ k \in DOMAIN natTable /\ natTable[k] = ev.flow.src

C2_Witness ==
  /\ IsWrite(ev) /\ ev.count = 1
  /\ ev.flow.src = "10.0.0.2" /\ ev.flow.sport = 5000 /\ ev.flow.dst = Remote4
  /\ natTable[[IP |-> Public4, Port |-> 5000]] = "10.0.0.2"

\* the packet a step handed to UserNat.SendPacket, with the packet it came from
Submitted(e) ==
  \/ e.op = "SendPacket"
  \/ (IsWrite(e) /\ e.count = 0 /\ e.out # <<>>)

\* C3: every packet handed to SendPacket carries the input TTL / HopLimit
\* minus 1 as an integer, and never 0.
C3_NoTTLUnderflow ==
  Submitted(ev) => (ev.out[1].ttl = ev.pkt.ttl - 1 /\ ev.out[1].ttl # 0)

\* C4 as stated: every outbound IPv4 ICMP packet is processed with (0, nil),
\* no table change and no send.
C4_IcmpAlwaysDiscarded ==
  (IsWrite(ev) /\ ev.flow.net = "IPv4" /\ ev.flow.l4 = "ICMP")
  => (ev.count = 0 /\ ev.err = NoErr /\ ev.out = <<>> /\ natTable = ev.before)

\* C4 amended: an outbound IPv4 ICMP packet adds no table entry and is not
\* sent; it is processed with (0, nil) when a public v4 address is configured
\* and with count 0 and the no-public-address error when none is.
C4_IcmpDiscarded ==
  (IsWrite(ev) /\ ev.flow.net = "IPv4" /\ ev.flow.l4 = "ICMP")
  => /\ ev.count = 0 /\ ev.out = <<>> /\ natTable = ev.before
     /\ (publicIP.v4 # NoAddr => ev.err = NoErr)
     /\ (publicIP.v4 = NoAddr => ev.err = ErrNoV4)

C4_Witness ==
  /\ IsWrite(ev) /\ ev.flow.net = "IPv4" /\ ev.flow.l4 = "ICMP"
  /\ publicIP.v4 = Public4 /\ ev.count = 0 /\ ev.err = NoErr
  /\ natTable # EmptyTable

\* C5 as stated: a packet with a transport layer that is neither TCP nor UDP
\* is processed with count 0 and no error, no send and no table change.
C5_UnsupportedIsSuccess ==
  (IsWrite(ev) /\ ev.flow.net # "none" /\ ev.flow.l4 \notin TcpUdp \cup {"ICMP"})
  => (ev.count = 0 /\ ev.err = NoErr /\ ev.out = <<>> /\ natTable = ev.before)

\* C5 amended: such a packet is processed with count 0 and an error (the
\* unsupported-transport error when the public address of its family is
\* configured), no send and no table change.
C5_UnsupportedIsError ==
  (IsWrite(ev) /\ ev.flow.net # "none" /\ ev.flow.l4 \notin TcpUdp \cup {"ICMP"})
  => /\ ev.count = 0 /\ ev.err # NoErr /\ ev.out = <<>> /\ natTable = ev.before
     /\ (PublicFor(ev.flow, publicIP) # NoAddr => ev.err = ErrL4)

C5_Witness ==
  /\ IsWrite(ev) /\ ev.flow.l4 = "SCTP" /\ ev.flow.net = "IPv4"
  /\ publicIP.v4 = Public4 /\ ev.err = ErrL4 /\ ev.count = 0

\* C6, the state part: a v4 (v6) packet written while no public v4 (v6)
\* address is configured is processed with an error and count 0, is not sent
\* and changes no table entry.
C6_State ==
  (IsWrite(ev) /\ ev.flow.net # "none" /\ PublicFor(ev.flow, publicIP) = NoAddr)
  => /\ ev.count = 0 /\ ev.out = <<>> /\ natTable = ev.before
     /\ ev.err = (IF ev.flow.net = "IPv4" THEN ErrNoV4 ELSE ErrNoV6)

C7_BatchResult ==
  ev.op = "Write"
  => /\ ev.seen = [i \in 1..ev.n |-> i]
     /\ ev.total = ev.nok
     /\ Len(ev.errs) = ev.nfail
     /\ (ev.errs = <<>> <=> ev.nfail = 0)

C7_Witness ==
  /\ ev.op = "Write" /\ ev.n = MaxBatch
  /\ ev.nfail >= 1 /\ ev.total >= 1 /\ ev.errs[1] # ErrSend

\* C8: the callback never changes the table; a TCP/UDP packet whose key
\* (destination address, L4 destination port) is not in the table is dropped:
\* nothing is offered on the read channel and the callback is not blocked.
C8_InboundMiss ==
  IsReceive(ev)
  => /\ natTable = ev.before
     /\ (/\ ev.pkt.net # "none" /\ ev.pkt.l4 \in TcpUdp
         /\ [IP |-> ev.pkt.dst, Port |-> ev.pkt.dport] \notin DOMAIN natTable)
        => (ev.out = <<>> /\ cbpc = "idle" /\ cbOut = <<>>)

C8_Witness ==
  /\ IsReceive(ev) /\ ev.pkt.l4 = "TCP" /\ ev.pkt.dst = Public4 /\ ev.pkt.dport = 5001
  /\ DOMAIN natTable = {[IP |-> Public4, Port |-> 5000]}
  /\ ev.out = <<>> /\ cbpc = "idle"

\* C9: a Read that receives a datagram longer than its buffer returns count 0
\* and an error; a successful Read reports at least the datagram's length.
C9_NoTruncation ==
  (ev.op = "Read" /\ ev.err # ErrClosed)
  => /\ (SerializedLen(ev.dgram) > ev.bufLen => (ev.count = 0 /\ ev.err # NoErr))
     /\ (ev.count = 1 => ev.size >= SerializedLen(ev.dgram))

\* C10: the datagrams successful Reads returned are, in order, the first
\* datagrams the callback accepted: none is skipped, reordered or returned twice.
C10_Fifo ==
  /\ Len(delivered) <= Len(accepted)
  /\ \A i \in 1..Len(delivered) : delivered[i] = accepted[i]

C10_Witness ==
  /\ Len(delivered) = 2 /\ delivered[1] # delivered[2]
  /\ delivered[1].dport = 5001

\* a Read waits on the channel and no sender has met it
ReadWaiting == rpc = "recv" /\ cbpc # "send"

\* C11: a Read that waits on the read channel once it is closed (it started
\* after Close, or was blocked when Close ran) eventually returns count 0 with
\* the closed sentinel error.
C11_ReadUnblocks ==
  (closed /\ ReadWaiting)
    ~> (rpc = "idle" /\ ev.op = "Read" /\ ev.count = 0 /\ ev.err = ErrClosed)

\* C12, the state part: each channel is closed at most once and the cancel
\* function runs at most once; a Close that returns returns nil, and by then
\* each of the three has happened exactly once.
C12_State ==
  /\ closes.events <= 1 /\ closes.natRcv <= 1 /\ closes.cancel <= 1
  /\ (ev.op = "Close"
        => (ev.ret = NoErr /\ closes = [events |-> 1, natRcv |-> 1, cancel |-> 1]))

\* C12, the step part: once a Close has completed, the steps of a later Close
\* change nothing of the device.
C12_Step ==
  (closed /\ ~natSet /\ ev'.op \in {"closeOnce", "Close"})
  => UNCHANGED <<publicIP, natTable, natSet, registered, closed, crashed, closes,
                 cbpc, cbOut>>

\* C12: Close is idempotent.
C12_CloseIdempotent == [](C12_State) /\ [][C12_Step]_vars

C12_Witness ==
  /\ ev.op = "Close" /\ ev.ret = NoErr /\ ~ev.cancelled
  /\ closes = [events |-> 1, natRcv |-> 1, cancel |-> 1]

\* C13: once Close has returned, processing a well-formed TCP/UDP packet
\* (its family's public address configured) does not crash; it returns count
\* 0 and an error and leaves the table as it was.
C13_WriteAfterClose ==
  (/\ closed /\ ~natSet /\ cpc = "idle"
   /\ ev.op \in {"panic", "processWritePacket"}
   /\ "pkt" \in DOMAIN ev
   /\ ev.pkt.net # "none" /\ ev.pkt.l4 \in TcpUdp
   /\ PublicFor(ev.pkt, publicIP) # NoAddr)
  => /\ ev.op = "processWritePacket"
     /\ ev.count = 0 /\ ev.err # NoErr /\ natTable = ev.before

\* C14: in every state reached by CalcAndSet and Get calls, Get(a, b) and
\* Get(b, a) return the same value, which is the last non-zero total recorded
\* for the unordered pair {a, b}, and 0 if there is none (so Get(a, a) = 0);
\* a Get call that was made returned that value.
C14_GetSymmetric ==
  /\ \A a \in SidSet, b \in SidSet :
       /\ Get(Cooc, a, b).ret = Get(Cooc, b, a).ret
       /\ Get(Cooc, a, b).ret = lastTotal[{a, b}]
  /\ (ev.op = "Get" => ev.ret = lastTotal[{ev.sid1, ev.sid2}])

C14_Witness ==
  /\ ev.op = "Get" /\ ev.sid1 = "c" /\ ev.sid2 = "a" /\ ev.ret = 7
  /\ idMapping["c"] < idMapping["a"]
  /\ lastTotal[{"a", "b"}] = 3

\* the cells stored: (outer cid, inner cid, value)
StoredCells(d) == UNION {{<<i, j, d[i][j]>> : j \in DOMAIN d[i]} : i \in DOMAIN d}

\* no unordered pair of cids is stored in both orientations
OneOrientation(d) ==
  \A x \in StoredCells(d), y \in StoredCells(d) : ~(x[1] = y[2] /\ x[2] = y[1])

\* a CalcAndSet with equal session ids or a zero total left the matrix as it was
NoOpCalls ==
  (ev.op = "CalcAndSet" /\ (ev.sid1 = ev.sid2 \/ ev.total = 0)) => Cooc = ev.before

\* C15 as stated: every stored cell data[i][j] = v has i < j and v > 0, no
\* pair is stored in both orientations, and a CalcAndSet with equal ids or a
\* zero total stores nothing.
C15_OuterIndexSmaller ==
  /\ \A x \in StoredCells(coData) : x[1] < x[2] /\ x[3] > 0
  /\ OneOrientation(coData)
  /\ NoOpCalls

\* the session id interned as cid
SidOf(cid) == CHOOSE sid \in DOMAIN idMapping : idMapping[sid] = cid

\* C15 amended: every stored cell data[i][j] = v has the session id of i
\* smaller than the session id of j (in string order) and v > 0, no pair is
\* stored in both orientations, and a CalcAndSet with equal ids or a zero
\* total stores nothing.
C15_OuterSidSmaller ==
  /\ \A x \in StoredCells(coData) :
       /\ x[1] \in {idMapping[sid] : sid \in DOMAIN idMapping}
       /\ x[2] \in {idMapping[sid] : sid \in DOMAIN idMapping}
       /\ Compare(SidOf(x[1]), SidOf(x[2])) = -1
       /\ x[3] > 0
  /\ OneOrientation(coData)
  /\ NoOpCalls

C15_Witness ==
  /\ ev.op = "CalcAndSet" /\ ev.sid1 = "b" /\ ev.sid2 = "a" /\ ev.total = 3
  /\ idMapping["b"] = 1 /\ idMapping["a"] = 2
  /\ <<2, 1, 3>> \in StoredCells(coData)

\* C16, the state part: the id mapping is injective and its values are
\* exactly 1..N for the N interned session ids (0 is never assigned).
C16_State ==
  LET ids == DOMAIN idMapping IN
  /\ \A a \in ids, b \in ids : idMapping[a] = idMapping[b] => a = b
  /\ {idMapping[a] : a \in ids} = 1..Cardinality(ids)

\* C16, the step part: an interned session id keeps its index.
C16_Step ==
  \A a \in DOMAIN idMapping : a \in DOMAIN idMapping' /\ idMapping'[a] = idMapping[a]

\* C16: after any CalcAndSet, Get and SetOuterKey calls on a new matrix the
\* ids are injective, dense from 1, and never change.
C16_DenseIds == [](C16_State) /\ [][C16_Step]_vars

C16_Witness ==
  /\ ev.op = "SetOuterKey" /\ ev.sid1 = "a"
  /\ DOMAIN idMapping = SidSet /\ idMapping["a"] = 3 /\ idMapping["c"] = 1

\* C17: a LoadData of a file SaveData wrote yields the rows, the cells and the
\* sid-to-cid pairs of the matrix that was saved, whatever order the entries
\* were written in, and Get on every pair of saved session ids returns what
\* it returned on the saved matrix.
C17_RoundTrip ==
  (ev.op = "LoadData" /\ ev.err = NoErr /\ saved # <<>>)
  => LET m == saved[1] IN
     /\ DOMAIN coData = DOMAIN m.data
     /\ StoredCells(coData) = StoredCells(m.data)
     /\ idMapping = m.idMapping
     /\ \A a \in DOMAIN m.idMapping, b \in DOMAIN m.idMapping :
          Get(Cooc, a, b).ret = Get(m, a, b).ret

C17_Witness ==
  /\ ev.op = "LoadData" /\ ev.err = NoErr /\ saved # <<>>
  /\ ev.before = Matrix(EmptyMap, EmptyMap, 1)
  /\ Cardinality(StoredCells(coData)) = 3
  /\ file[1].sids[1].cid = 3
  /\ Len(file[1].outer[1].inner) = 2
  /\ file[1].outer[1].inner[1].cid > file[1].outer[1].inner[2].cid

\* the sid table gives two distinct session ids the same cid
SharedCid(q) ==
  \E i \in 1..Len(q), j \in 1..Len(q) : q[i].sid # q[j].sid /\ q[i].cid = q[j].cid

\* C18: LoadData of a file whose sid table gives two distinct session ids the
\* same cid returns an error and leaves the id mapping as it was.
C18_RejectsSharedCid ==
  (ev.op = "LoadData" /\ file # <<>> /\ SharedCid(file[1].sids))
  => (ev.err # NoErr /\ idMapping = ev.before.idMapping)

IsOverlap(e) == e.op = "FixedMarginOverlap"

\* both lists hold one timestamp
Singles(e) == IsOverlap(e) /\ Len(e.times1) = 1 /\ Len(e.times2) = 1

\* C19 as stated: for every timestamp t and margin m the overlap of [t] with
\* [t] is 2m.
C19_TwiceMargin ==
  (Singles(ev) /\ ev.times1 = ev.times2) => ev.ret = 2 * ev.margin

\* C19 amended: for every timestamp t and margin m with m <= t and t + m not
\* above the largest timestamp, the overlap of [t] with [t] is 2m.
C19_TwiceMarginInRange ==
  (/\ Singles(ev) /\ ev.times1 = ev.times2
   /\ ev.margin <= ev.times1[1] /\ ev.times1[1] + ev.margin <= MaxU64)
  => ev.ret = 2 * ev.margin

C19_Witness ==
  /\ Singles(ev) /\ ev.times1 = <<3>> /\ ev.times2 = <<3>> /\ ev.margin = 3
  /\ ev.ret = 6

\* the interval of t with its ends clamped to the range of timestamps
ClampedStart(t, m) == IF t < m THEN 0 ELSE t - m
ClampedEnd(t, m) == IF t + m > MaxU64 THEN MaxU64 ELSE t + m

\* the length of the intersection of [s1, e1] and [s2, e2]
IntersectLen(s1, e1, s2, e2) ==
  LET lo == IF s1 > s2 THEN s1 ELSE s2
      hi == IF e1 < e2 THEN e1 ELSE e2 IN
  IF hi > lo THEN hi - lo ELSE 0

\* C20: for single timestamps t1 and t2 the interval ends the kernel computes
\* are clamped (start 0 when t < margin, end the largest timestamp when
\* t + margin exceeds it), never wrapped, and the result is the length of the
\* intersection of the two clamped intervals.
C20_ClampedEndpoints ==
  Singles(ev)
  => LET t1 == ev.times1[1]
         t2 == ev.times2[1]
         m == ev.margin
         e1 == addEvents(ev.times1, 1, m)
         e2 == addEvents(ev.times2, 2, m) IN
     /\ e1[1].eTime = ClampedStart(t1, m) /\ e1[2].eTime = ClampedEnd(t1, m)
     /\ e2[1].eTime = ClampedStart(t2, m) /\ e2[2].eTime = ClampedEnd(t2, m)
     /\ ev.ret = IntersectLen(ClampedStart(t1, m), ClampedEnd(t1, m),
                              ClampedStart(t2, m), ClampedEnd(t2, m))

\* the list is in ascending order
IsSorted(q) == \A i \in 1..Len(q) - 1 : q[i] <= q[i + 1]

\* every interval [t - m, t + m] of the list lies within the range of timestamps
InRange(q, m) == \A i \in 1..Len(q) : m <= q[i] /\ q[i] + m <= MaxU64

\* the unit of time [x, x + 1] lies in one of the intervals of the list
Covers(q, m, x) == \E i \in 1..Len(q) : q[i] - m <= x /\ x + 1 <= q[i] + m

\* the measure of (union of the intervals of q1) intersected with (union of
\* the intervals of q2): the units of time that lie in both
UnionOverlap(q1, q2, m) ==
  Cardinality({x \in 0..(MaxU64 - 1) : Covers(q1, m, x) /\ Covers(q2, m, x)})

\* C21: for sorted lists whose intervals [t - margin, t + margin] lie within
\* the range of timestamps, the kernel returns the measure of the union of
\* the first list's intervals intersected with the union of the second's,
\* time covered by several pairs of intervals counted once.
C21_UnionMeasure ==
  (/\ IsOverlap(ev)
   /\ IsSorted(ev.times1) /\ IsSorted(ev.times2)
   /\ InRange(ev.times1, ev.margin) /\ InRange(ev.times2, ev.margin))
  => ev.ret = UnionOverlap(ev.times1, ev.times2, ev.margin)

\* two intervals of each list overlap each other and those of the other list
C21_Witness ==
  /\ IsOverlap(ev) /\ ev.times1 = <<2, 3>> /\ ev.times2 = <<3, 5>> /\ ev.margin = 2
  /\ ev.ret = 4

\* a peer config was processed to its end
PeerDone(e) == e.op = "IpcSetPeer"

\* C22: once a peer config with remove = true is processed, the device has
\* no peer with its public key, no allowed ip refers to the removed peer, and
\* the removed peer was not started, is not running and got no keepalive.
C22_RemovedPeerGone ==
  (PeerDone(ev) /\ ev.cfg.remove)
  => /\ ev.cfg.key \notin DOMAIN peers
     /\ \A x \in DOMAIN allowedips : allowedips[x] # ev.res.peer
     /\ ~ev.res.started /\ ev.res.keepalives = 0
     /\ (~ev.res.skipped => ~peerObjs[ev.res.peer].running)

\* C23: while one peer config is processed, one keepalive is sent if the
\* peer's stored interval was 0 before, the interval this config stored is
\* greater than 0 and the device is up; in every other case none is sent.
C23_KeepaliveOnTurnOn ==
  PeerDone(ev)
  => ev.res.keepalives =
       (IF /\ ~ev.res.skipped
           /\ ev.cfg.ka.set
           /\ ev.res.old = 0
           /\ peerObjs[ev.res.peer].ka > 0
           /\ deviceUp
        THEN 1 ELSE 0)

\* C24: the table entry of an outbound packet is recorded before the packet
\* is handed to SendPacket, so an inbound TCP/UDP packet for its key that the
\* callback processes once SendPacket has taken the packet is not dropped: it
\* is offered on the read channel, addressed to the packet's original source.
C24_InsertBeforeSend ==
  (/\ IsReceive(ev) /\ ev.pkt.net # "none" /\ ev.pkt.l4 \in TcpUdp
   /\ wpc = "insert" /\ ReceiveNatKey(ev.pkt) = pend[1].key)
  => (ev.out # <<>> /\ ev.out[1].dst = pend[1].val)

\* the callback ran its table lookup on this packet
LookedUp(e) == e.op \in {"natReceive", "fatal"} /\ ReachesLookup(e.pkt)

\* C25: every table access happens under the one table mutex, so the callback
\* never runs its lookup while a writer is between Lock and Unlock, and the
\* lookup never ends the process.
C25_TableUnderMutex ==
  LookedUp(ev) => (wpc # "locked" /\ ev.op # "fatal")

\* C26: no execution sends on a closed channel: neither a callback that
\* enqueues a datagram once Close has closed the read channel, nor a callback
\* blocked on the read channel when Close closes it, ends the process.
C26_NoSendOnClosed ==
  ~(crashed /\ ev.op \in {"natReceive", "closeOnce"})

\* C27: when two Close calls run at the same time the cancel function runs
\* at most once, is not called after the other call set it to nil (no Close
\* panics), and has run exactly once when both calls have returned.
C27_ConcurrentClose ==
  /\ closes.cancel <= 1
  /\ ~(ev.op = "panic" /\ ev.in = "Close")
  /\ ((\A i \in Closers : ccpc[i] = "done") => closes.cancel = 1)

\* C28: once Close has closed the event channel, the worker processes every
\* event that was queued before, in the order added, and then terminates.
C28_WorkerDrains ==
  closed ~> (evpc = "stopped" /\ handled = added)

\* the engine state an event leaves behind
EngineAfter(wasUp, e) ==
  IF "DOWN" \in e THEN FALSE ELSE IF "UP" \in e THEN TRUE ELSE wasUp

\* sub is a subsequence of <<"mtu", "Up", "Down">>, in that order
InFlagOrder(calls) ==
  \A i \in 1..Len(calls), j \in 1..Len(calls) :
    i < j => \/ (calls[i] = "mtu" /\ calls[j] \in {"Up", "Down"})
             \/ (calls[i] = "Up" /\ calls[j] = "Down")

\* C29: an event with UP leaves the engine up whatever it was, one with DOWN
\* leaves it down, one with MTU_UPDATE alone (or no flag) leaves it as it was;
\* the flags of one event are applied in the order MTU_UPDATE, UP, DOWN, so an
\* event with UP and DOWN leaves the engine down.
C29_EngineMachine ==
  ev.op = "event"
  => /\ deviceUp = EngineAfter(ev.wasUp, ev.event)
     /\ InFlagOrder(ev.calls)
     /\ Len(ev.calls) = Cardinality(ev.event)
     /\ ({"UP", "DOWN"} \subseteq ev.event => ~deviceUp)
     /\ (ev.event \subseteq {"MTU_UPDATE"} => deviceUp = ev.wasUp)

C29_Witness ==
  /\ ev.op = "event" /\ ev.event = {"MTU_UPDATE", "UP", "DOWN"} /\ ev.wasUp
  /\ ~deviceUp /\ ev.calls = <<"mtu", "Up", "Down">>
  /\ Len(handled) = 2 /\ handled[1] = {"UP"}

\* the key a flow of outbound packets records
KeyOfFlow(f) == [IP |-> PublicFor(f, publicIP), Port |-> f.sport]

\* C30, the state part: when a packet is sent successfully whose key already
\* holds the source of an earlier packet, the table still holds one entry
\* for the key (no entry is added) and its value is the later source; an
\* inbound TCP/UDP packet to the public address and that port is rewritten to
\* the source of the packet inserted last.
C30_State ==
  /\ (IsWrite(ev) /\ ev.count = 1 /\ KeyOfFlow(ev.flow) \in DOMAIN ev.before)
     => /\ DOMAIN natTable = DOMAIN ev.before
        /\ natTable[KeyOfFlow(ev.flow)] = ev.flow.src
        /\ \A k \in DOMAIN natTable \ {KeyOfFlow(ev.flow)} : natTable[k] = ev.before[k]
  /\ (/\ IsReceive(ev) /\ ev.pkt.net # "none" /\ ev.pkt.l4 \in TcpUdp
      /\ ReceiveNatKey(ev.pkt) \in DOMAIN natTable)
     => /\ ev.out = <<[ev.pkt EXCEPT !.dst = sentBy[<<ev.pkt.net, ev.pkt.dport>>]]>>
        /\ natTable[ReceiveNatKey(ev.pkt)] = sentBy[<<ev.pkt.net, ev.pkt.dport>>]

\* C30, the step part: no step removes an entry.
C30_Step == \A k \in DOMAIN natTable : k \in DOMAIN natTable'

\* C30: a later successful send with the same key overwrites the entry, and
\* entries are never removed.
C30_LastSourceWins == [](C30_State) /\ [][C30_Step]_vars

\* a UDP packet of 10.0.0.3 took over the entry a packet of 10.0.0.2 had made
C30_Witness ==
  /\ IsWrite(ev) /\ ev.count = 1 /\ ev.flow.src = "10.0.0.3" /\ ev.flow.l4 = "UDP"
  /\ KeyOfFlow(ev.flow) \in DOMAIN ev.before
  /\ ev.before[KeyOfFlow(ev.flow)] = "10.0.0.2"
  /\ natTable[KeyOfFlow(ev.flow)] = "10.0.0.3"

\* C31: a packet that fails, is discarded, or whose send returns false leaves
\* the flow table exactly as it was: the table changes only in the step that
\* completes a packet counted 1, and then only in that packet's entry.
C31_FailedKeepsTable ==
  [][/\ (IsWrite(ev') /\ ev'.count = 0) => (natTable' = natTable /\ ev'.before = natTable)
     /\ ev'.op \in {"SendPacket", "panic", "WriteBegin", "Write"} => natTable' = natTable
     /\ natTable' # natTable =>
          /\ IsWrite(ev') /\ ev'.count = 1 /\ ev'.err = NoErr
          /\ wpc = "insert" /\ pend[1].flow = ev'.flow
          /\ \A k \in DOMAIN natTable : k # pend[1].key => natTable'[k] = natTable[k]
          /\ DOMAIN natTable' = DOMAIN natTable \cup {pend[1].key}]_vars

\* a failed send has left a table with an entry as it was
C31_Witness ==
  /\ IsWrite(ev) /\ ev.count = 0 /\ ev.err = ErrSend
  /\ ev.before # EmptyTable /\ natTable = ev.before

\* an outbound packet with this (family, L4 source port) has been sent
\* successfully: SendPacket returned true for it
SentOk(f) ==
  \/ sentBy[f] # NoAddr
  \/ pend # <<>> /\ pend[1].flow.net = f[1] /\ pend[1].flow.sport = f[2]

\* C32: an inbound TCP or UDP packet addressed to the public address is
\* accepted if and only if an earlier outbound packet of its family whose L4
\* source port is the inbound destination port was sent successfully, whatever
\* the L4 protocols and the remote endpoint.
C32_PortAloneDecides ==
  (IsReceive(ev) /\ ev.pkt.l4 \in TcpUdp /\ ev.pkt.dst = PublicFor(ev.pkt, publicIP))
    => ((ev.out # <<>>) <=> SentOk(<<ev.pkt.net, ev.pkt.dport>>))

\* C33: the endpoint lock taken for a peer config is released when that
\* config's processing ends: when IpcSet turns to a peer config, the call
\* holds no endpoint lock.
C33_UnlockPerPeer ==
  [][ev'.op \in {"IpcSetPeer", "IpcSetBlocked"} => ipc.held = {}]_vars

\* C34: IpcSet returns for every config: it never waits for an endpoint lock
\* that the call itself holds, and when it has returned it holds no lock.
C34_IpcSetReturns ==
  /\ ipc.pc # "blocked"
  /\ ipc.pc = "idle" => ipc.held = {}

\* the id mapping gives no two session ids the same index
Injective(ids) == \A a \in DOMAIN ids, b \in DOMAIN ids : ids[a] = ids[b] => a = b

\* the session ids of a call
SidsOf(e) == IF e.op = "SetOuterKey" THEN {e.sid1} ELSE {e.sid1, e.sid2}

\* C35: on a matrix loaded from a file SaveData wrote, interning a session id
\* that is not in the loaded mapping gives it an index that no loaded session
\* id holds: the mapping stays injective, and a Get that involves a new
\* session id returns 0.
C35_FreshIndexAfterLoad ==
  /\ Injective(idMapping)
  /\ (ev.op = "Get" /\ SidsOf(ev) \ DOMAIN ev.before.idMapping # {}) => ev.ret = 0

\* C36: Get changes neither the stored cells, nor the id mapping, nor the
\* next index to assign.
C36_GetReadOnly ==
  ev.op = "Get" => Cooc = ev.before

\* C37: a LoadData that returns an error leaves the stored cells and the id
\* mapping as they were before the call.
C37_FailedLoadKeeps ==
  (ev.op = "LoadData" /\ ev.err # NoErr)
  => (coData = ev.before.data /\ idMapping = ev.before.idMapping)

\* a file that does not decode was loaded into a matrix that holds cells
C37_Witness ==
  /\ ev.op = "LoadData" /\ ev.err = ErrUnmarshal
  /\ ev.before.data # EmptyMap /\ coData = ev.before.data
  /\ DOMAIN idMapping # {}

\* the lists that hold the timestamps of q in another order
Perms(q) == {[i \in 1..Len(q) |-> q[o[i]]] : o \in Orders(1..Len(q))}

\* C38: FixedMarginOverlap returns the same result for every order of the
\* timestamps inside each list.
C38_OrderInsensitive ==
  IsOverlap(ev)
  => \A p1 \in Perms(ev.times1), p2 \in Perms(ev.times2) :
       FixedMarginOverlap(p1, p2, ev.margin) = ev.ret

\* a call with an unsorted list whose intervals overlap the other list's
C38_Witness ==
  /\ IsOverlap(ev) /\ ev.times1 = <<8, 2>> /\ ev.times2 = <<3>> /\ ev.margin = 1
  /\ ev.ret = 1

\* C39: FixedMarginOverlap(A, B, m) = FixedMarginOverlap(B, A, m).
C39_KernelSymmetric ==
  IsOverlap(ev) => FixedMarginOverlap(ev.times2, ev.times1, ev.margin) = ev.ret

\* two lists of different lengths with a positive overlap
C39_Witness ==
  /\ IsOverlap(ev) /\ ev.times1 = <<5>> /\ ev.times2 = <<3, 8>> /\ ev.margin = 2
  /\ ev.ret = 3

\* C40: in the sorted event list, among events with the same time every End
\* precedes every Start, and among events with the same time and kind those
\* of list 1 precede those of list 2; an interval that ends where one of the
\* other list starts adds no width.
C40_EndBeforeStart ==
  IsOverlap(ev)
  => LET q == FmEvents(ev.times1, ev.times2, ev.margin) IN
     /\ \A i \in 1..Len(q), j \in 1..Len(q) :
          (i < j /\ q[i].eTime = q[j].eTime)
          => /\ ~(q[i].eType = 1 /\ q[j].eType = 2)
             /\ (q[i].eType = q[j].eType => q[i].eListID <= q[j].eListID)
     /\ (Singles(ev) /\ ev.times1[1] + ev.margin = ev.times2[1] - ev.margin
         /\ ev.times1[1] >= ev.margin /\ ev.times2[1] + ev.margin <= MaxU64)
        => ev.ret = 0

====
